---------------------------- MODULE Spec2Model ----------------------------
(***************************************************************************)
(* Model of virtual-mic-soundboard (src/src/soundboard.py): the hotkey     *)
(* chord detector (class HotkeyManager), the audio engine (class           *)
(* AudioPlayer) and the handlers of the window that connect them.          *)
(*                                                                         *)
(* Python strings are modelled as sequences of one-character strings, so   *)
(* that lower(), strip(), startswith(), split('+'), sorted() and           *)
(* '+'.join() are computed the way the interpreter computes them.          *)
(***************************************************************************)
EXTENDS Integers, Sequences, FiniteSets, TLC

(***************************************************************************)
(* Characters: the printable ASCII range, in code point order (32..126).   *)
(* Code point 96 (the grave accent) is written "GRAVE".                    *)
(***************************************************************************)
Ascii ==
  << " ", "!", "\"", "#", "$", "%", "&", "'", "(", ")", "*", "+", ",", "-",
     ".", "/", "0", "1", "2", "3", "4", "5", "6", "7", "8", "9", ":", ";",
     "<", "=", ">", "?", "@", "A", "B", "C", "D", "E", "F", "G", "H", "I",
     "J", "K", "L", "M", "N", "O", "P", "Q", "R", "S", "T", "U", "V", "W",
     "X", "Y", "Z", "[", "\\", "]", "^", "_", "GRAVE", "a", "b", "c", "d", "e",
     "f", "g", "h", "i", "j", "k", "l", "m", "n", "o", "p", "q", "r", "s",
     "t", "u", "v", "w", "x", "y", "z", "{", "|", "}", "~" >>

CharSet == { Ascii[i] : i \in 1..Len(Ascii) }

\* ord(c): the code point of a character.
OrdTable == [ c \in CharSet |-> 31 + (CHOOSE i \in 1..Len(Ascii) : Ascii[i] = c) ]

Ord(c) == OrdTable[c]

\* chr(n)
Chr(n) == Ascii[n - 31]

\* str.lower() on one character, then on a string.
LowerChar(c) == IF Ord(c) >= Ord("A") /\ Ord(c) <= Ord("Z") THEN Chr(Ord(c) + 32) ELSE c

Lower(s) == [ i \in 1..Len(s) |-> LowerChar(s[i]) ]

\* str.startswith(prefix)
StartsWith(s, prefix) ==
  /\ Len(prefix) <= Len(s)
  /\ \A i \in 1..Len(prefix) : s[i] = prefix[i]

\* str.strip(): leading and trailing whitespace removed.
RECURSIVE LStrip(_)
LStrip(s) == IF s # << >> /\ Head(s) = " " THEN LStrip(Tail(s)) ELSE s

RECURSIVE RStrip(_)
RStrip(s) ==
  IF s # << >> /\ s[Len(s)] = " " THEN RStrip(SubSeq(s, 1, Len(s) - 1)) ELSE s

Strip(s) == RStrip(LStrip(s))

\* str.split(sep) for a one-character separator: a list of the pieces between
\* separators, empty pieces included ("".split('+') is ['']).
RECURSIVE SplitFrom(_, _, _)
SplitFrom(s, sep, piece) ==
  IF s = << >> THEN << piece >>
  ELSE IF Head(s) = sep THEN << piece >> \o SplitFrom(Tail(s), sep, << >>)
  ELSE SplitFrom(Tail(s), sep, Append(piece, Head(s)))

Split(s, sep) == SplitFrom(s, sep, << >>)

\* sep.join(list)
RECURSIVE Join(_, _)
Join(sep, list) ==
  IF list = << >> THEN << >>
  ELSE IF Len(list) = 1 THEN list[1]
  ELSE list[1] \o << sep >> \o Join(sep, Tail(list))

\* a < b for Python strings: lexicographic on code points.
RECURSIVE StrLess(_, _)
StrLess(a, b) ==
  IF b = << >> THEN FALSE
  ELSE IF a = << >> THEN TRUE
  ELSE IF Head(a) # Head(b) THEN Ord(Head(a)) < Ord(Head(b))
  ELSE StrLess(Tail(a), Tail(b))

\* sorted(list) for a list of strings (stable insertion sort).
RECURSIVE InsertSorted(_, _)
InsertSorted(x, list) ==
  IF list = << >> THEN << x >>
  ELSE IF StrLess(x, Head(list)) THEN << x >> \o list
  ELSE << Head(list) >> \o InsertSorted(x, Tail(list))

RECURSIVE Sorted(_)
Sorted(list) ==
  IF list = << >> THEN << >>
  ELSE InsertSorted(list[Len(list)], Sorted(SubSeq(list, 1, Len(list) - 1)))

\* set(list)
ToSet(list) == { list[i] : i \in 1..Len(list) }

\* "%d" % n for n >= 0
RECURSIVE Decimal(_)
Decimal(n) ==
  IF n < 10 THEN << Chr(Ord("0") + n) >>
  ELSE Append(Decimal(n \div 10), Chr(Ord("0") + (n % 10)))

(***************************************************************************)
(* Raw key events of the capture collaborator (pynput): a member of the    *)
(* Key enumeration carries a name; a KeyCode carries a character, a        *)
(* virtual key code, or both.  A missing attribute (None) is << >>.        *)
(***************************************************************************)
KeyEnum(name) == [ cls |-> "Key", name |-> name, char |-> << >>, vk |-> << >> ]

KeyCodeChar(c) == [ cls |-> "KeyCode", name |-> << >>, char |-> << c >>, vk |-> << >> ]

KeyCodeVk(n) == [ cls |-> "KeyCode", name |-> << >>, char |-> << >>, vk |-> << n >> ]

\* The modifier names both normalizations collapse to, in the order tried.
Modifiers ==
  << << "c", "t", "r", "l" >>, << "a", "l", "t" >>, << "s", "h", "i", "f", "t" >>, << "c", "m", "d" >>, << "w", "i", "n" >> >>

\* for mod in [...]: if s.startswith(mod): <mod>  -- the first match, or s.
RECURSIVE FirstModifier(_, _)
FirstModifier(s, mods) ==
  IF mods = << >> THEN s
  ELSE IF StartsWith(s, Head(mods)) THEN Head(mods)
  ELSE FirstModifier(s, Tail(mods))

\* shift_map of _normalize_key: shifted symbol -> base key.
shift_map ==
  ("!" :> "1") @@ ("@" :> "2") @@ ("#" :> "3") @@ ("$" :> "4") @@ ("%" :> "5") @@
  ("^" :> "6") @@ ("&" :> "7") @@ ("*" :> "8") @@ ("(" :> "9") @@ (")" :> "0") @@
  ("_" :> "-") @@ ("+" :> "=") @@ ("{" :> "[") @@ ("}" :> "]") @@ ("|" :> "\\") @@
  (":" :> ";") @@ ("\"" :> "'") @@ ("<" :> ",") @@ (">" :> ".") @@ ("?" :> "/")

\* shift_map.get(char, char)
ShiftMapGet(char) ==
  IF Len(char) = 1 /\ char[1] \in DOMAIN shift_map THEN << shift_map[char[1]] >> ELSE char

\* The fallback for keys that carry only a virtual key code.
NormalizeVk(vk) ==
  IF 48 <= vk /\ vk <= 57 THEN << Chr(vk) >>
  ELSE IF 65 <= vk /\ vk <= 90 THEN << Chr(vk + 32) >>
  ELSE << "<" >> \o Decimal(vk) \o << ">" >>

\* A plausible slip: the shifted symbols are not mapped to their base keys.
_normalize_key_no_shift_map(key) ==
  IF key.cls = "Key" THEN FirstModifier(Lower(key.name), Modifiers)
  ELSE IF key.char # << >> THEN Lower(key.char)
  ELSE NormalizeVk(key.vk[1])

\* HotkeyManager._normalize_key.  (A KeyCode with neither a character nor a
\* virtual key code is not delivered by the capture collaborator and has no
\* case here.)
_normalize_key(key) ==
  IF key.cls = "Key" THEN FirstModifier(Lower(key.name), Modifiers)
  ELSE IF key.char # << >> THEN ShiftMapGet(Lower(key.char))
  ELSE NormalizeVk(key.vk[1])

\* for p in parts: p = p.strip(); a modifier prefix is replaced by the modifier.
NormalizeParts(parts) ==
  [ i \in 1..Len(parts) |-> FirstModifier(Strip(parts[i]), Modifiers) ]

\* A plausible slip: the tokens are joined in the order written.
_normalize_hotkey_string_unsorted(hotkey) ==
  Join("+", NormalizeParts(Split(Lower(hotkey), "+")))

\* A plausible slip: the string is not lowercased.
_normalize_hotkey_string_cased(hotkey) ==
  Join("+", Sorted(NormalizeParts(Split(hotkey, "+"))))

\* HotkeyManager._normalize_hotkey_string
_normalize_hotkey_string(hotkey) ==
  Join("+", Sorted(NormalizeParts(Split(Lower(hotkey), "+"))))


(***************************************************************************)
(* Inputs explored.                                                        *)
(***************************************************************************)
K_ctrl_l == KeyEnum(<< "c", "t", "r", "l", "_", "l" >>)
K_ctrl_r == KeyEnum(<< "c", "t", "r", "l", "_", "r" >>)
K_shift == KeyEnum(<< "s", "h", "i", "f", "t" >>)
K_a == KeyCodeChar("a")
K_A == KeyCodeChar("A")
K_1 == KeyCodeChar("1")
K_bang == KeyCodeChar("!")
K_vk_a == KeyCodeVk(65)

\* Keys with a name or a character (the capture alphabet), and all keys.
NamedKeys == { K_ctrl_l, K_ctrl_r, K_shift, K_a, K_A, K_1, K_bang }

\* The keys delivered where every operation of the detector is explored.
CoreKeys == { K_ctrl_l, K_shift, K_a, K_1, K_bang }

RawKeys == NamedKeys \cup { K_vk_a }

S_ctrl_a == << "c", "t", "r", "l", "+", "a" >>
S_a_ctrl == << "a", "+", "c", "t", "r", "l" >>
S_A_Ctrl == << "A", "+", "C", "t", "r", "l" >>
S_a == << "a" >>
S_1 == << "1" >>
S_empty == << >>

\* The strings passed to register and unregister: chords in several
\* spellings and the empty string.
ChordStrings == { S_ctrl_a, S_a_ctrl, S_A_Ctrl, S_a, S_1, S_empty }

S_space == << " " >>
S_plus == << "+" >>
S_space_plus_space == << " ", "+", " " >>

\* Strings with no key name in them: whitespace and the '+' delimiter only.
BlankStrings == { S_space, S_plus, S_space_plus_space }

\* A key's own name or character, as a user would write it in a chord string.
OwnName(key) == IF key.cls = "Key" THEN key.name ELSE key.char

KeyNameStrings == { OwnName(key) : key \in NamedKeys }

HotkeyStrings == ChordStrings \cup KeyNameStrings \cup BlankStrings

\* The most chords registered at once in the states explored.
MaxHotkeys == 2

NormKey == [ k \in RawKeys |-> _normalize_key(k) ]

NormHotkey == [ h \in HotkeyStrings |-> _normalize_hotkey_string(h) ]

\* hotkey.split('+') for every chord string that can be registered.
SplitHotkey == [ h \in { NormHotkey[x] : x \in HotkeyStrings } |-> Split(h, "+") ]

\* set(hotkey.split('+')): the token set of a registered chord string.
hotkey_parts(hotkey) == ToSet(SplitHotkey[hotkey])

(***************************************************************************)
(* State of a HotkeyManager.  emitted is the sequence of signals the last  *)
(* operation emitted; last names the last operation and its argument (the  *)
(* raw key of a key event, the string of register and unregister).         *)
(***************************************************************************)
VARIABLES hotkeys, current_keys, triggered_hotkeys, recording, recorded_keys,
          emitted, last

detector_vars == << hotkeys, current_keys, triggered_hotkeys, recording,
                    recorded_keys, emitted, last >>

NoKey == [ cls |-> "None", name |-> << >>, char |-> << >>, vk |-> << >> ]

Op(name, key, hotkey) == [ op |-> name, key |-> key, hotkey |-> hotkey ]

Signal(name, arg) == [ signal |-> name, arg |-> arg ]

\* HotkeyManager.__init__
Init ==
  /\ hotkeys = {}
  /\ current_keys = {}
  /\ triggered_hotkeys = {}
  /\ recording = FALSE
  /\ recorded_keys = << >>
  /\ emitted = << >>
  /\ last = Op("init", NoKey, << >>)

\* A plausible slip: a latched chord is matched again.
RECURSIVE MatchLoopNoLatch(_, _, _, _)
MatchLoopNoLatch(todo, keys, triggered, out) ==
  IF todo = {} THEN [ triggered |-> triggered, out |-> out ]
  ELSE LET hotkey == CHOOSE h \in todo : TRUE
       IN IF hotkey_parts(hotkey) \subseteq keys
          THEN MatchLoopNoLatch(todo \ { hotkey }, keys, triggered \cup { hotkey },
                                Append(out, Signal("hotkey_triggered", hotkey)))
          ELSE MatchLoopNoLatch(todo \ { hotkey }, keys, triggered, out)

\* A plausible slip: the chord must equal the pressed keys, not be a subset.
RECURSIVE MatchLoopExact(_, _, _, _)
MatchLoopExact(todo, keys, triggered, out) ==
  IF todo = {} THEN [ triggered |-> triggered, out |-> out ]
  ELSE LET hotkey == CHOOSE h \in todo : TRUE
       IN IF hotkey \in triggered
          THEN MatchLoopExact(todo \ { hotkey }, keys, triggered, out)
          ELSE IF hotkey_parts(hotkey) = keys
          THEN MatchLoopExact(todo \ { hotkey }, keys, triggered \cup { hotkey },
                              Append(out, Signal("hotkey_triggered", hotkey)))
          ELSE MatchLoopExact(todo \ { hotkey }, keys, triggered, out)

\* The matching loop of _on_press: for hotkey in self.hotkeys, in the set's
\* iteration order; a latched chord is skipped, a chord whose parts are all
\* pressed is emitted and latched.
RECURSIVE MatchLoop(_, _, _, _)
MatchLoop(todo, keys, triggered, out) ==
  IF todo = {} THEN [ triggered |-> triggered, out |-> out ]
  ELSE LET hotkey == CHOOSE h \in todo : TRUE
       IN IF hotkey \in triggered
          THEN MatchLoop(todo \ { hotkey }, keys, triggered, out)
          ELSE IF hotkey_parts(hotkey) \subseteq keys
          THEN MatchLoop(todo \ { hotkey }, keys, triggered \cup { hotkey },
                         Append(out, Signal("hotkey_triggered", hotkey)))
          ELSE MatchLoop(todo \ { hotkey }, keys, triggered, out)

\* A plausible slip: the key is appended without the membership test.
RecordKeyAlways(keys, key_str) == Append(keys, key_str)

\* if key_str not in self.recorded_keys: self.recorded_keys.append(key_str)
RecordKey(keys, key_str) ==
  IF key_str \in ToSet(keys) THEN keys ELSE Append(keys, key_str)

\* HotkeyManager._on_press
_on_press(key) ==
  LET key_str == NormKey[key]
      keys == current_keys \cup { key_str }
      matched == MatchLoop(hotkeys, keys, triggered_hotkeys, << >>)
  IN /\ current_keys' = keys
     /\ IF recording
        THEN /\ recorded_keys' = RecordKey(recorded_keys, key_str)
             /\ emitted' = << >>
             /\ UNCHANGED triggered_hotkeys
        ELSE /\ triggered_hotkeys' = matched.triggered
             /\ emitted' = matched.out
             /\ UNCHANGED recorded_keys
     /\ last' = Op("on_press", key, << >>)
     /\ UNCHANGED << hotkeys, recording >>

\* A plausible slip: a release re-arms nothing.
to_reset_nothing(triggered, key_str) == {}

\* The chords _on_release re-arms: those with key_str among their parts.
to_reset(triggered, key_str) ==
  { hotkey \in triggered : key_str \in ToSet(SplitHotkey[hotkey]) }

\* A plausible slip: the recorded chord is sorted like a registered one.
_on_release_sorted(key) ==
  LET key_str == NormKey[key]
      keys == current_keys \ { key_str }
  IN /\ current_keys' = keys
     /\ triggered_hotkeys' = triggered_hotkeys \ to_reset(triggered_hotkeys, key_str)
     /\ IF recording /\ keys = {}
        THEN /\ recording' = FALSE
             /\ emitted' = << Signal("recording_finished", Join("+", Sorted(recorded_keys))) >>
             /\ recorded_keys' = << >>
        ELSE /\ emitted' = << >>
             /\ UNCHANGED << recording, recorded_keys >>
     /\ last' = Op("on_release", key, << >>)
     /\ UNCHANGED hotkeys

\* HotkeyManager._on_release
_on_release(key) ==
  LET key_str == NormKey[key]
      keys == current_keys \ { key_str }
  IN /\ current_keys' = keys
     /\ triggered_hotkeys' = triggered_hotkeys \ to_reset(triggered_hotkeys, key_str)
     /\ IF recording /\ keys = {}
        THEN /\ recording' = FALSE
             /\ emitted' = << Signal("recording_finished", Join("+", recorded_keys)) >>
             /\ recorded_keys' = << >>
        ELSE /\ emitted' = << >>
             /\ UNCHANGED << recording, recorded_keys >>
     /\ last' = Op("on_release", key, << >>)
     /\ UNCHANGED hotkeys

\* HotkeyManager.register
register(hotkey) ==
  /\ IF hotkey = << >>
     THEN UNCHANGED hotkeys
     ELSE /\ Cardinality(hotkeys \cup { NormHotkey[hotkey] }) <= MaxHotkeys
          /\ hotkeys' = hotkeys \cup { NormHotkey[hotkey] }
  /\ emitted' = << >>
  /\ last' = Op("register", NoKey, hotkey)
  /\ UNCHANGED << current_keys, triggered_hotkeys, recording, recorded_keys >>

\* A plausible variant: unregister also drops the chord from the latched set.
unregister_and_latched(hotkey) ==
  /\ IF hotkey = << >>
     THEN UNCHANGED << hotkeys, triggered_hotkeys >>
     ELSE /\ hotkeys' = hotkeys \ { NormHotkey[hotkey] }
          /\ triggered_hotkeys' = triggered_hotkeys \ { NormHotkey[hotkey] }
  /\ emitted' = << >>
  /\ last' = Op("unregister", NoKey, hotkey)
  /\ UNCHANGED << current_keys, recording, recorded_keys >>

\* HotkeyManager.unregister
unregister(hotkey) ==
  /\ IF hotkey = << >>
     THEN UNCHANGED hotkeys
     ELSE hotkeys' = hotkeys \ { NormHotkey[hotkey] }
  /\ emitted' = << >>
  /\ last' = Op("unregister", NoKey, hotkey)
  /\ UNCHANGED << current_keys, triggered_hotkeys, recording, recorded_keys >>

\* A plausible variant: clear_all also empties the latched set.
clear_all_and_latched ==
  /\ hotkeys' = {}
  /\ triggered_hotkeys' = {}
  /\ emitted' = << >>
  /\ last' = Op("clear_all", NoKey, << >>)
  /\ UNCHANGED << current_keys, recording, recorded_keys >>

\* HotkeyManager.clear_all
clear_all ==
  /\ hotkeys' = {}
  /\ emitted' = << >>
  /\ last' = Op("clear_all", NoKey, << >>)
  /\ UNCHANGED << current_keys, triggered_hotkeys, recording, recorded_keys >>

\* A plausible slip: the sequence of an unfinished session is kept.
start_recording_keep ==
  /\ recording' = TRUE
  /\ current_keys' = {}
  /\ emitted' = << >>
  /\ last' = Op("start_recording", NoKey, << >>)
  /\ UNCHANGED << hotkeys, triggered_hotkeys, recorded_keys >>

\* HotkeyManager.start_recording
start_recording ==
  /\ recording' = TRUE
  /\ recorded_keys' = << >>
  /\ current_keys' = {}
  /\ emitted' = << >>
  /\ last' = Op("start_recording", NoKey, << >>)
  /\ UNCHANGED << hotkeys, triggered_hotkeys >>

(***************************************************************************)
(* The AudioPlayer.  A buffer is a sequence of stereo frames << l, r >>;   *)
(* sample values and gains are integers, so that products and sums are     *)
(* exact.  A file is what sf.read gives for its path: an array of one      *)
(* dimension (ndim 1, data a sequence of samples) or of two (data a        *)
(* sequence of frames), and a sample rate; a path that cannot be decoded   *)
(* has ok FALSE.  Paths are the files most sounds are played from.         *)
(***************************************************************************)
SAMPLE_RATE == 48000

CHANNELS == 2

P_long == "long.wav"
P_mono == "mono.wav"
P_bad == "bad.wav"

Paths == { P_long, P_mono, P_bad }

\* A file of three channels, a file of so low a rate that resampling it
\* to the engine's rate is refused, and a file of no frames.
P_wide == "wide.wav"
P_slow == "slow.wav"
P_empty == "empty.wav"

AllPaths == Paths \cup { P_wide, P_slow, P_empty }

File ==
  [ p \in AllPaths |->
      IF p = P_long
      THEN [ ok |-> TRUE, ndim |-> 2, rate |-> SAMPLE_RATE,
             data |-> << << 1, 2 >>, << -3, 4 >>, << 5, -6 >> >> ]
      ELSE IF p = P_mono
      THEN [ ok |-> TRUE, ndim |-> 1, rate |-> SAMPLE_RATE, data |-> << 7 >> ]
      ELSE IF p = P_wide
      THEN [ ok |-> TRUE, ndim |-> 2, rate |-> SAMPLE_RATE,
             data |-> << << 1, 2, 3 >>, << 4, 5, 6 >> >> ]
      ELSE IF p = P_slow
      THEN [ ok |-> TRUE, ndim |-> 1, rate |-> 100, data |-> << 7 >> ]
      ELSE IF p = P_empty
      THEN [ ok |-> TRUE, ndim |-> 1, rate |-> SAMPLE_RATE, data |-> << >> ]
      ELSE [ ok |-> FALSE, ndim |-> 0, rate |-> 0, data |-> << >> ] ]

\* The "Ensure stereo" step of load_audio: a one-dimensional array and an
\* array of one column are stacked with themselves; any other is kept.
EnsureStereo(ndim, data) ==
  IF ndim = 1 THEN [ i \in 1..Len(data) |-> << data[i], data[i] >> ]
  ELSE [ i \in 1..Len(data) |->
           IF Len(data[i]) = 1 THEN << data[i][1], data[i][1] >> ELSE data[i] ]

\* samplerate.resample raises for a ratio above 256.
ResampleRaises(source_rate) == SAMPLE_RATE > 256 * source_rate

\* What load_audio computes for a path that is not cached: the decoded
\* buffer after the "Ensure stereo" step, or ok FALSE when sf.read or
\* samplerate.resample raises.  Every file explored is either at the
\* engine's rate (source_rate = SAMPLE_RATE), where load_audio does not
\* resample, or one whose resampling raises.
Decode(file_path) ==
  LET file == File[file_path]
  IN IF file.ok /\ ~(file.rate # SAMPLE_RATE /\ ResampleRaises(file.rate))
     THEN [ ok |-> TRUE, samples |-> EnsureStereo(file.ndim, file.data) ]
     ELSE [ ok |-> FALSE, samples |-> << >> ]

Decoded == [ p \in AllPaths |-> Decode(p) ]

\* A plausible slip: the cache is never consulted.
IsCachedNever(file_path, cache) == FALSE

\* if file_path in self._audio_cache:
IsCached(file_path, cache) == file_path \in DOMAIN cache

\* A plausible slip: the array is returned as it is, without copy().
ReturnsCachedNoCopy == TRUE

\* .copy(): whether the array returned is the very object the cache holds.
ReturnsCached == FALSE

\* A plausible slip: an empty buffer is cached for a file that failed.
OnErrorCached(file_path, cache) ==
  [ p \in DOMAIN cache \cup { file_path } |->
      IF p = file_path THEN << >> ELSE cache[p] ]

\* except Exception: ... return None (the cache after a failure)
OnError(file_path, cache) == cache

\* AudioPlayer.load_audio: the result (ok FALSE for None), the cache after
\* the call, whether sf.read was called (decoded), and whether the array
\* returned is the object the cache holds (shared).
load_audio(file_path, cache) ==
  IF IsCached(file_path, cache)
  THEN [ ok |-> TRUE, samples |-> cache[file_path], cache |-> cache,
         decoded |-> FALSE, shared |-> ReturnsCached ]
  ELSE IF Decoded[file_path].ok
  THEN [ ok |-> TRUE, samples |-> Decoded[file_path].samples,
         cache |-> [ p \in DOMAIN cache \cup { file_path } |->
                       IF p = file_path THEN Decoded[file_path].samples ELSE cache[p] ],
         decoded |-> TRUE, shared |-> ReturnsCached ]
  ELSE [ ok |-> FALSE, samples |-> << >>, cache |-> OnError(file_path, cache),
         decoded |-> TRUE, shared |-> FALSE ]

\* The most identifiers issued in the states explored.
MaxSounds == 2

\* The identifiers passed to the operations on one sound: those that can be
\* issued.
SoundIds == 1..MaxSounds

\* The frames argument of the mix callback.
BlockSizes == { 1, 2 }

\* The volume argument of play_sound and of set_sound_volume.
PlayVolumes == { 1 }

SetVolumes == { 2 }

\* The argument of set_master_volume.
MasterVolumes == { 1, 3 }

\* Volume arguments on both sides of the range 0.0 to 2.0 and on its ends.
Gains == { -1, 0, 1, 2, 3 }

(***************************************************************************)
(* State of an AudioPlayer.  active_sounds maps an identifier to its sound *)
(* data; outdata is the block the last step wrote when it was a mix        *)
(* callback (<< >> after any other step); call names the last operation,   *)
(* its sound_id argument (0 when it has none), what it returned (<< >> for  *)
(* None or no value) and, for the two operations that set a volume, their  *)
(* volume argument (0 for the others).                                     *)
(***************************************************************************)
VARIABLES active_sounds, sound_id_counter, master_volume, is_playing,
          _audio_cache, outdata, call

engine_vars == << active_sounds, sound_id_counter, master_volume, is_playing,
                  _audio_cache, outdata, call >>

Call(name, sound_id, returned) ==
  [ op |-> name, sound_id |-> sound_id, returned |-> returned, volume |-> 0 ]

CallVolume(name, sound_id, volume) ==
  [ op |-> name, sound_id |-> sound_id, returned |-> << >>, volume |-> volume ]

NoSounds == [ id \in {} |-> 0 ]

\* AudioPlayer.__init__
InitEngine ==
  /\ active_sounds = NoSounds
  /\ sound_id_counter = 0
  /\ master_volume = 1
  /\ is_playing = FALSE
  /\ _audio_cache = [ p \in {} |-> << >> ]
  /\ outdata = << >>
  /\ call = Call("init", 0, << >>)

\* The entry play_sound stores for a new sound.
SoundData(samples, volume, file_path) ==
  [ samples |-> samples, position |-> 0, volume |-> volume,
    file_path |-> file_path, paused |-> FALSE ]

\* del self.active_sounds[sound_id] for every sound_id in ids.
Without(sounds, ids) == [ id \in DOMAIN sounds \ ids |-> sounds[id] ]

\* self.active_sounds[sound_id] = data
With(sounds, sound_id, data) ==
  [ id \in DOMAIN sounds \cup { sound_id } |->
      IF id = sound_id THEN data ELSE sounds[id] ]

SetMin(S) == CHOOSE x \in S : \A y \in S : x <= y

Min(a, b) == IF a <= b THEN a ELSE b

Max(a, b) == IF a >= b THEN a ELSE b

\* mixed = np.zeros((frames, CHANNELS))
Zeros(frames) == [ f \in 1..frames |-> [ c \in 1..CHANNELS |-> 0 ] ]

\* A plausible slip: the chunk is not scaled by the sound's volume.
ChunkUnscaled(frame, volume, master) ==
  [ c \in 1..CHANNELS |-> frame[c] * master ]

\* One frame of samples[position:position + to_copy] * volume * master_volume
Chunk(frame, volume, master) ==
  [ c \in 1..CHANNELS |-> (frame[c] * volume) * master ]

\* A plausible slip: the position moves back by the frames copied.
AdvancedBackwards(position, to_copy) == position - to_copy

\* sound_data['position'] = position + to_copy
Advanced(position, to_copy) == position + to_copy

\* A plausible slip: a sound is finished only once past its end.
AtEndStrict(position, samples) == position > Len(samples)

\* if sound_data['position'] >= len(samples):
AtEnd(position, samples) == position >= Len(samples)

\* A plausible slip: no sound is skipped.
IsSkippedNever(sound_data) == FALSE

\* if sound_data.get('paused', False): continue
IsSkipped(sound_data) == sound_data.paused

\* The loop of _audio_callback over self.active_sounds.items(), in the
\* dict's order (the order of insertion, which is the order of the
\* identifiers): a paused sound is skipped; of any other, to_copy frames
\* from its position are scaled and added to the head of mixed, its
\* position advances, and it is listed as finished once at its end.
RECURSIVE MixLoop(_, _, _, _, _, _)

\* The next iteration of the loop, on the values this iteration has
\* computed (each is computed once, then bound).
MixStep(todo, sounds, mixed, finished_ids, frames, master) ==
  CHOOSE done \in { MixLoop(t, s, m, f, frames, master) :
                     t \in { todo }, s \in { sounds }, m \in { mixed },
                     f \in { finished_ids } } : TRUE

MixLoop(todo, sounds, mixed, finished_ids, frames, master) ==
  IF todo = {} THEN [ sounds |-> sounds, mixed |-> mixed, finished_ids |-> finished_ids ]
  ELSE LET sound_id == SetMin(todo)
           sound_data == sounds[sound_id]
           remaining == Len(sound_data.samples) - sound_data.position
           to_copy == Min(frames, remaining)
           position == IF to_copy > 0 THEN Advanced(sound_data.position, to_copy)
                       ELSE sound_data.position
       IN IF IsSkipped(sound_data)
          THEN MixStep(todo \ { sound_id }, sounds, mixed, finished_ids,
                       frames, master)
          ELSE MixStep(
                 todo \ { sound_id },
                 [ sounds EXCEPT ![sound_id].position = position ],
                 [ f \in 1..frames |->
                     IF f <= to_copy
                     THEN [ c \in 1..CHANNELS |->
                              mixed[f][c]
                              + Chunk(sound_data.samples[sound_data.position + f],
                                      sound_data.volume, master)[c] ]
                     ELSE mixed[f] ],
                 IF AtEnd(position, sound_data.samples)
                 THEN finished_ids \cup { sound_id } ELSE finished_ids,
                 frames, master)

\* A plausible slip: the flag is set whatever the table holds.
StillPlayingAlways(sounds) == TRUE

\* len(self.active_sounds) > 0
StillPlaying(sounds) == DOMAIN sounds # {}

\* AudioPlayer._audio_callback
_audio_callback(frames) ==
  \E done \in { MixLoop(DOMAIN active_sounds, active_sounds, Zeros(frames), {},
                        frames, master_volume) } :
  \E sounds \in { Without(done.sounds, done.finished_ids) } :
     /\ active_sounds' = sounds
     /\ is_playing' = StillPlaying(sounds)
     /\ outdata' = done.mixed
     /\ call' = Call("_audio_callback", 0, << >>)
     /\ UNCHANGED << sound_id_counter, master_volume, _audio_cache >>

\* A plausible slip: the identifier is the number of active sounds plus one.
NextIdByCount(counter, sounds) == Cardinality(DOMAIN sounds) + 1

\* A plausible slip: the lowest identifier that is not in the table is taken.
NextIdLowestFree(counter, sounds) ==
  SetMin({ id \in 1..(counter + 1) : id \notin DOMAIN sounds })

\* self.sound_id_counter += 1
NextId(counter, sounds) == counter + 1

\* if not overlap: self.active_sounds.clear()
Cleared(sounds, overlap) == IF overlap THEN sounds ELSE NoSounds

\* A plausible slip: the table is cleared before the result of the load is
\* tested.
OnNoSamplesCleared(sounds, overlap) == Cleared(sounds, overlap)

\* if samples is None: return None (the table after it)
OnNoSamples(sounds, overlap) == sounds

\* AudioPlayer.play_sound
play_sound(file_path, volume, overlap) ==
  LET loaded == load_audio(file_path, _audio_cache)
      sound_id == NextId(sound_id_counter, active_sounds)
  IN /\ _audio_cache' = loaded.cache
     /\ IF ~loaded.ok
        THEN /\ call' = Call("play_sound", 0, << >>)
             /\ active_sounds' = OnNoSamples(active_sounds, overlap)
             /\ UNCHANGED << sound_id_counter, is_playing >>
        ELSE /\ sound_id_counter < MaxSounds
             /\ sound_id_counter' = sound_id
             /\ active_sounds' = With(Cleared(active_sounds, overlap), sound_id,
                                      SoundData(loaded.samples, volume, file_path))
             /\ is_playing' = TRUE
             /\ call' = Call("play_sound", 0, << sound_id >>)
     /\ outdata' = << >>
     /\ UNCHANGED master_volume

\* A plausible slip: the flag before the change is returned.
ToggleReturnOld(current) == current

\* return not current
ToggleReturn(current) == ~current

\* AudioPlayer.toggle_pause_sound
toggle_pause_sound(sound_id) ==
  /\ IF sound_id \in DOMAIN active_sounds
     THEN LET current == active_sounds[sound_id].paused
          IN /\ active_sounds' = [ active_sounds EXCEPT ![sound_id].paused = ~current ]
             /\ call' = Call("toggle_pause_sound", sound_id, << ToggleReturn(current) >>)
     ELSE /\ call' = Call("toggle_pause_sound", sound_id, << FALSE >>)
          /\ UNCHANGED active_sounds
  /\ outdata' = << >>
  /\ UNCHANGED << sound_id_counter, master_volume, is_playing, _audio_cache >>

\* A plausible slip: an identifier that is not active empties the table.
StoppedOrAll(sounds, sound_id) ==
  IF sound_id \in DOMAIN sounds THEN Without(sounds, { sound_id }) ELSE NoSounds

\* A plausible slip: the sound is paused and stays in the table.
StoppedPaused(sounds, sound_id) ==
  IF sound_id \in DOMAIN sounds
  THEN [ sounds EXCEPT ![sound_id].paused = TRUE ] ELSE sounds

\* if sound_id in self.active_sounds: del self.active_sounds[sound_id]
Stopped(sounds, sound_id) ==
  IF sound_id \in DOMAIN sounds THEN Without(sounds, { sound_id }) ELSE sounds

\* AudioPlayer.stop_sound
stop_sound(sound_id) ==
  /\ active_sounds' = Stopped(active_sounds, sound_id)
  /\ is_playing' = StillPlaying(active_sounds')
  /\ call' = Call("stop_sound", sound_id, << >>)
  /\ outdata' = << >>
  /\ UNCHANGED << sound_id_counter, master_volume, _audio_cache >>

\* AudioPlayer.set_sound_volume
set_sound_volume(sound_id, volume) ==
  /\ IF sound_id \in DOMAIN active_sounds
     THEN active_sounds' = [ active_sounds EXCEPT ![sound_id].volume = volume ]
     ELSE UNCHANGED active_sounds
  /\ call' = CallVolume("set_sound_volume", sound_id, volume)
  /\ outdata' = << >>
  /\ UNCHANGED << sound_id_counter, master_volume, is_playing, _audio_cache >>

\* AudioPlayer.stop_all
stop_all ==
  /\ active_sounds' = NoSounds
  /\ is_playing' = FALSE
  /\ call' = Call("stop_all", 0, << >>)
  /\ outdata' = << >>
  /\ UNCHANGED << sound_id_counter, master_volume, _audio_cache >>

\* A plausible slip: only the upper limit is applied.
ClampAbove(volume) == Min(2, volume)

\* max(0.0, min(2.0, volume))
Clamp(volume) == Max(0, Min(2, volume))

\* AudioPlayer.set_master_volume
set_master_volume(volume) ==
  /\ master_volume' = Clamp(volume)
  /\ call' = CallVolume("set_master_volume", 0, volume)
  /\ outdata' = << >>
  /\ UNCHANGED << active_sounds, sound_id_counter, is_playing, _audio_cache >>

\* AudioPlayer.clear_cache
clear_cache ==
  /\ _audio_cache' = [ p \in {} |-> << >> ]
  /\ call' = Call("clear_cache", 0, << >>)
  /\ outdata' = << >>
  /\ UNCHANGED << active_sounds, sound_id_counter, master_volume, is_playing >>

(***************************************************************************)
(* Threads.  The capture thread runs _on_press and _on_release, the main   *)
(* thread runs the window's handlers and calls into both components, a     *)
(* worker stands for any other thread that calls the player, and the       *)
(* audio thread runs the mix callback.  pc is each thread's position,      *)
(* lock the holder of each component's threading.Lock ("free" when none),  *)
(* local each thread's local variables (with floor, the value of           *)
(* sound_id_counter when the thread's call of play_sound began), and       *)
(* issued the identifiers in the order play_sound assigned them.           *)
(***************************************************************************)
Threads == { "capture", "main", "worker", "audio" }

\* The threads that call the player's operations.
Players == { "main", "worker" }

VARIABLES pc, lock, local, issued

thread_vars == << pc, lock, local, issued >>

NoLocal ==
  [ file_path |-> "", volume |-> 0, overlap |-> TRUE, samples |-> << >>,
    counter |-> 0, sound_id |-> 0, frames |-> 0, floor |-> 0, resume |-> "idle",
    key_str |-> << >>, old_hotkey |-> << >>, new_hotkey |-> << >>, combo |-> {} ]

InitThreads ==
  /\ pc = [ t \in Threads |-> "idle" ]
  /\ lock = [ detector |-> "free", engine |-> "free" ]
  /\ local = [ t \in Threads |-> NoLocal ]
  /\ issued = << >>

\* The positions at which a thread waits for the player's lock, and where
\* each continues once it holds it.
EngineEntry ==
  [ p \in { "play_acquire", "stop_acquire", "cb_acquire", "toggle_acquire",
            "volume_acquire", "stop_all_acquire" } |->
      IF p = "play_acquire" THEN "play_clear"
      ELSE IF p = "stop_acquire" THEN "stop_body"
      ELSE IF p = "toggle_acquire" THEN "toggle_body"
      ELSE IF p = "volume_acquire" THEN "volume_body"
      ELSE IF p = "stop_all_acquire" THEN "stop_all_body"
      ELSE "cb_body" ]

\* The positions at which a thread leaves the player's 'with self.lock'
\* block, and where each continues.
EngineExit ==
  [ p \in { "play_release", "stop_release", "cb_release", "toggle_release",
            "volume_release", "stop_all_release" } |->
      IF p = "play_release" THEN "play_return" ELSE "idle" ]

\* A plausible slip: the block is entered without taking the lock.
acquire_engine_unlocked(t) ==
  /\ pc[t] \in DOMAIN EngineEntry
  /\ pc' = [ pc EXCEPT ![t] = EngineEntry[pc[t]] ]
  /\ UNCHANGED << lock, local, issued, engine_vars >>

\* with self.lock: (entry, lines 490, 579, 600, 609, 616, 622)
acquire_engine(t) ==
  /\ pc[t] \in DOMAIN EngineEntry
  /\ lock.engine = "free"
  /\ lock' = [ lock EXCEPT !.engine = t ]
  /\ pc' = [ pc EXCEPT ![t] = EngineEntry[pc[t]] ]
  /\ UNCHANGED << local, issued, engine_vars >>

\* with self.lock: (exit)
release_engine(t) ==
  /\ pc[t] \in DOMAIN EngineExit
  /\ lock' = [ lock EXCEPT !.engine = IF @ = t THEN "free" ELSE @ ]
  /\ pc' = [ pc EXCEPT ![t] = EngineExit[pc[t]] ]
  /\ local' = [ local EXCEPT ![t] = IF EngineExit[pc[t]] = "idle" THEN NoLocal ELSE @ ]
  /\ UNCHANGED << issued, engine_vars >>

\* The positions of a thread inside play_sound.
PlayPcs ==
  { "play_load", "play_acquire", "play_clear", "play_counter_load",
    "play_counter_store", "play_id", "play_insert", "play_flag",
    "play_release", "play_return" }

\* A call of play_sound by thread t.  (A call is begun only while the
\* calls in progress leave an identifier to issue within MaxSounds.)
play_call(t, file_path, volume, overlap) ==
  /\ pc[t] = "idle"
  /\ sound_id_counter + Cardinality({ u \in Players : pc[u] \in PlayPcs }) < MaxSounds
  /\ pc' = [ pc EXCEPT ![t] = "play_load" ]
  /\ local' = [ local EXCEPT ![t] = [ NoLocal EXCEPT !.file_path = file_path,
                                                    !.volume = volume,
                                                    !.overlap = overlap,
                                                    !.floor = sound_id_counter ] ]
  /\ UNCHANGED << lock, issued, engine_vars >>

\* samples = self.load_audio(file_path); if samples is None: return None
play_load(t) ==
  LET loaded == load_audio(local[t].file_path, _audio_cache)
  IN /\ pc[t] = "play_load"
     /\ _audio_cache' = loaded.cache
     /\ IF loaded.ok
        THEN /\ pc' = [ pc EXCEPT ![t] = "play_acquire" ]
             /\ local' = [ local EXCEPT ![t].samples = loaded.samples ]
             /\ UNCHANGED call
        ELSE /\ pc' = [ pc EXCEPT ![t] = local[t].resume ]
             /\ call' = Call("play_sound", 0, << >>)
             /\ local' = [ local EXCEPT ![t] = NoLocal ]
     /\ outdata' = << >>
     /\ UNCHANGED << lock, issued, active_sounds, sound_id_counter, master_volume,
                     is_playing >>

\* if not overlap: self.active_sounds.clear()
play_clear(t) ==
  /\ pc[t] = "play_clear"
  /\ active_sounds' = Cleared(active_sounds, local[t].overlap)
  /\ pc' = [ pc EXCEPT ![t] = "play_counter_load" ]
  /\ outdata' = << >>
  /\ UNCHANGED << lock, local, issued, sound_id_counter, master_volume, is_playing,
                  _audio_cache, call >>

\* self.sound_id_counter += 1, the read
play_counter_load(t) ==
  /\ pc[t] = "play_counter_load"
  /\ local' = [ local EXCEPT ![t].counter = sound_id_counter ]
  /\ pc' = [ pc EXCEPT ![t] = "play_counter_store" ]
  /\ UNCHANGED << lock, issued, engine_vars >>

\* self.sound_id_counter += 1, the write
play_counter_store(t) ==
  /\ pc[t] = "play_counter_store"
  /\ sound_id_counter' = NextId(local[t].counter, active_sounds)
  /\ pc' = [ pc EXCEPT ![t] = "play_id" ]
  /\ UNCHANGED << lock, local, issued, active_sounds, master_volume, is_playing,
                  _audio_cache, outdata, call >>

\* sound_id = self.sound_id_counter
play_id(t) ==
  /\ pc[t] = "play_id"
  /\ local' = [ local EXCEPT ![t].sound_id = sound_id_counter ]
  /\ issued' = Append(issued, sound_id_counter)
  /\ pc' = [ pc EXCEPT ![t] = "play_insert" ]
  /\ UNCHANGED << lock, engine_vars >>

\* self.active_sounds[sound_id] = {...}
play_insert(t) ==
  /\ pc[t] = "play_insert"
  /\ active_sounds' = With(active_sounds, local[t].sound_id,
                           SoundData(local[t].samples, local[t].volume, local[t].file_path))
  /\ pc' = [ pc EXCEPT ![t] = "play_flag" ]
  /\ outdata' = << >>
  /\ UNCHANGED << lock, local, issued, sound_id_counter, master_volume, is_playing,
                  _audio_cache, call >>

\* self.is_playing = True
play_flag(t) ==
  /\ pc[t] = "play_flag"
  /\ is_playing' = TRUE
  /\ pc' = [ pc EXCEPT ![t] = "play_release" ]
  /\ UNCHANGED << lock, local, issued, active_sounds, sound_id_counter, master_volume,
                  _audio_cache, outdata, call >>

\* return sound_id (the caller goes on at resume)
play_return(t) ==
  /\ pc[t] = "play_return"
  /\ call' = Call("play_sound", 0, << local[t].sound_id >>)
  /\ pc' = [ pc EXCEPT ![t] = local[t].resume ]
  /\ local' = [ local EXCEPT ![t] = NoLocal ]
  /\ outdata' = << >>
  /\ UNCHANGED << lock, issued, active_sounds, sound_id_counter, master_volume,
                  is_playing, _audio_cache >>

\* A call of stop_sound by thread t.
stop_call(t, sound_id) ==
  /\ pc[t] = "idle"
  /\ pc' = [ pc EXCEPT ![t] = "stop_acquire" ]
  /\ local' = [ local EXCEPT ![t] = [ NoLocal EXCEPT !.sound_id = sound_id ] ]
  /\ UNCHANGED << lock, issued, engine_vars >>

\* The block of stop_sound, run under the lock.
stop_body(t) ==
  /\ pc[t] = "stop_body"
  /\ stop_sound(local[t].sound_id)
  /\ pc' = [ pc EXCEPT ![t] = "stop_release" ]
  /\ UNCHANGED << lock, local, issued >>

\* A call of toggle_pause_sound by thread t.
toggle_call(t, sound_id) ==
  /\ pc[t] = "idle"
  /\ pc' = [ pc EXCEPT ![t] = "toggle_acquire" ]
  /\ local' = [ local EXCEPT ![t] = [ NoLocal EXCEPT !.sound_id = sound_id ] ]
  /\ UNCHANGED << lock, issued, engine_vars >>

\* The block of toggle_pause_sound, run under the lock.
toggle_body(t) ==
  /\ pc[t] = "toggle_body"
  /\ toggle_pause_sound(local[t].sound_id)
  /\ pc' = [ pc EXCEPT ![t] = "toggle_release" ]
  /\ UNCHANGED << lock, local, issued >>

\* A call of set_sound_volume by thread t.
volume_call(t, sound_id, volume) ==
  /\ pc[t] = "idle"
  /\ pc' = [ pc EXCEPT ![t] = "volume_acquire" ]
  /\ local' = [ local EXCEPT ![t] = [ NoLocal EXCEPT !.sound_id = sound_id,
                                                    !.volume = volume ] ]
  /\ UNCHANGED << lock, issued, engine_vars >>

\* The block of set_sound_volume, run under the lock.
volume_body(t) ==
  /\ pc[t] = "volume_body"
  /\ set_sound_volume(local[t].sound_id, local[t].volume)
  /\ pc' = [ pc EXCEPT ![t] = "volume_release" ]
  /\ UNCHANGED << lock, local, issued >>

\* A call of stop_all by thread t.
stop_all_call(t) ==
  /\ pc[t] = "idle"
  /\ pc' = [ pc EXCEPT ![t] = "stop_all_acquire" ]
  /\ UNCHANGED << lock, local, issued, engine_vars >>

\* self.active_sounds.clear()
stop_all_clear(t) ==
  /\ pc[t] = "stop_all_body"
  /\ active_sounds' = NoSounds
  /\ pc' = [ pc EXCEPT ![t] = "stop_all_flag" ]
  /\ outdata' = << >>
  /\ UNCHANGED << lock, local, issued, sound_id_counter, master_volume, is_playing,
                  _audio_cache, call >>

\* self.is_playing = False
stop_all_flag(t) ==
  /\ pc[t] = "stop_all_flag"
  /\ is_playing' = FALSE
  /\ call' = Call("stop_all", 0, << >>)
  /\ pc' = [ pc EXCEPT ![t] = "stop_all_release" ]
  /\ UNCHANGED << lock, local, issued, active_sounds, sound_id_counter, master_volume,
                  _audio_cache, outdata >>

\* The mix callback is invoked by the stream, on the audio thread.
cb_call(frames) ==
  /\ pc["audio"] = "idle"
  /\ pc' = [ pc EXCEPT !["audio"] = "cb_acquire" ]
  /\ local' = [ local EXCEPT !["audio"] = [ NoLocal EXCEPT !.frames = frames ] ]
  /\ UNCHANGED << lock, issued, engine_vars >>

\* The block of _audio_callback, run under the lock (outdata is written
\* from the block's result).
cb_body ==
  /\ pc["audio"] = "cb_body"
  /\ _audio_callback(local["audio"].frames)
  /\ pc' = [ pc EXCEPT !["audio"] = "cb_release" ]
  /\ UNCHANGED << lock, local, issued >>

(***************************************************************************)
(* The window and the detector on their threads.  hotkey_triggered and     *)
(* recording_finished are emitted on the capture thread and connected      *)
(* (lines 1016-1017, default connection type) to slots of the window,      *)
(* which lives on the main thread: Qt queues such an emission as an event  *)
(* for the main thread instead of calling the slot.  queue holds the       *)
(* events not yet handled and handling the one the main thread is          *)
(* handling; an event's released flag is set once the capture thread has   *)
(* left the 'with self.lock' block it emitted the event in.  The window    *)
(* has one sound button: button_hotkey is its sound's hotkey, and          *)
(* recording_button tells whether it is the button being recorded for.     *)
(***************************************************************************)
VARIABLES queue, handling, button_hotkey, recording_button

window_vars == << queue, handling, button_hotkey, recording_button >>

\* The most events queued for the main thread in the states explored.
MaxQueue == 1

\* The most sounds played from on_hotkey_triggered in the states explored.
MaxTriggered == 1

Event(name, arg) == [ signal |-> name, arg |-> arg, released |-> FALSE ]

NoEvent == [ signal |-> "none", arg |-> << >>, released |-> TRUE ]

\* SoundboardWindow.__init__, with one sound loaded whose hotkey is "a".
InitWindow ==
  /\ queue = << >>
  /\ handling = NoEvent
  /\ button_hotkey = S_a
  /\ recording_button = FALSE

\* The positions at which a thread waits for the detector's lock, and where
\* each continues once it holds it.
DetectorEntry ==
  [ p \in { "press_acquire", "release_acquire", "register_acquire",
            "unregister_acquire", "start_recording_acquire" } |->
      IF p = "press_acquire" THEN "press_add"
      ELSE IF p = "release_acquire" THEN "release_remove"
      ELSE IF p = "register_acquire" THEN "register_body"
      ELSE IF p = "unregister_acquire" THEN "unregister_body"
      ELSE "start_recording_body" ]

\* The positions at which a thread leaves the detector's 'with self.lock'
\* block, and where each continues.
DetectorExit ==
  [ p \in { "press_release", "release_release", "register_release",
            "unregister_release", "start_recording_release" } |->
      IF p = "unregister_release" THEN "changed_register"
      ELSE IF p = "register_release" THEN "changed_done"
      ELSE "idle" ]

\* with self.lock: (entry, lines 689, 712, 764, 770, 775, 780)
acquire_detector(t) ==
  /\ pc[t] \in DOMAIN DetectorEntry
  /\ lock.detector = "free"
  /\ lock' = [ lock EXCEPT !.detector = t ]
  /\ pc' = [ pc EXCEPT ![t] = DetectorEntry[pc[t]] ]
  /\ UNCHANGED << local, issued, window_vars, detector_vars, engine_vars >>

\* with self.lock: (exit).  The events the capture thread emitted in the
\* block it leaves are marked released.
release_detector(t) ==
  /\ pc[t] \in DOMAIN DetectorExit
  /\ lock' = [ lock EXCEPT !.detector = IF @ = t THEN "free" ELSE @ ]
  /\ pc' = [ pc EXCEPT ![t] = DetectorExit[pc[t]] ]
  /\ IF t = "capture"
     THEN /\ queue' = [ i \in 1..Len(queue) |-> [ queue[i] EXCEPT !.released = TRUE ] ]
          /\ handling' = [ handling EXCEPT !.released = TRUE ]
     ELSE UNCHANGED << queue, handling >>
  /\ UNCHANGED << local, issued, button_hotkey, recording_button, detector_vars,
                  engine_vars >>

\* The listener calls _on_press(key): key_str = self._normalize_key(key)
press_call(key) ==
  /\ pc["capture"] = "idle"
  /\ pc' = [ pc EXCEPT !["capture"] = "press_acquire" ]
  /\ local' = [ local EXCEPT !["capture"] = [ NoLocal EXCEPT !.key_str = NormKey[key] ] ]
  /\ UNCHANGED << lock, issued, window_vars, detector_vars, engine_vars >>

\* if key_str not in self.current_keys: self.current_keys.add(key_str)
press_add ==
  /\ pc["capture"] = "press_add"
  /\ current_keys' = current_keys \cup { local["capture"].key_str }
  /\ pc' = [ pc EXCEPT !["capture"] = "press_match" ]
  /\ UNCHANGED << hotkeys, triggered_hotkeys, recording, recorded_keys, emitted, last,
                  lock, local, issued, window_vars, engine_vars >>

\* The events for the signals a step emitted, appended to the queue.
Queued(q, signals) ==
  q \o [ i \in 1..Len(signals) |-> Event(signals[i].signal, signals[i].arg) ]

\* The rest of _on_press's block: the recording branch, or the matching
\* loop with its emissions.
press_match ==
  LET matched == MatchLoop(hotkeys, current_keys, triggered_hotkeys, << >>)
  IN /\ pc["capture"] = "press_match"
     /\ IF recording
        THEN /\ recorded_keys' = RecordKey(recorded_keys, local["capture"].key_str)
             /\ UNCHANGED << triggered_hotkeys, queue >>
        ELSE /\ Len(queue) + Len(matched.out) <= MaxQueue
             /\ triggered_hotkeys' = matched.triggered
             /\ queue' = Queued(queue, matched.out)
             /\ UNCHANGED recorded_keys
     /\ pc' = [ pc EXCEPT !["capture"] = "press_release" ]
     /\ UNCHANGED << hotkeys, current_keys, recording, emitted, last, lock, local, issued,
                     handling, button_hotkey, recording_button, engine_vars >>

\* The listener calls _on_release(key): key_str = self._normalize_key(key)
release_call(key) ==
  /\ pc["capture"] = "idle"
  /\ pc' = [ pc EXCEPT !["capture"] = "release_acquire" ]
  /\ local' = [ local EXCEPT !["capture"] = [ NoLocal EXCEPT !.key_str = NormKey[key] ] ]
  /\ UNCHANGED << lock, issued, window_vars, detector_vars, engine_vars >>

\* if key_str in self.current_keys: self.current_keys.remove(key_str)
release_remove ==
  /\ pc["capture"] = "release_remove"
  /\ current_keys' = current_keys \ { local["capture"].key_str }
  /\ pc' = [ pc EXCEPT !["capture"] = "release_rest" ]
  /\ UNCHANGED << hotkeys, triggered_hotkeys, recording, recorded_keys, emitted, last,
                  lock, local, issued, window_vars, engine_vars >>

\* The rest of _on_release's block: the latched chords with the key are
\* re-armed, and a session with no key left pressed is finished.
release_rest ==
  /\ pc["capture"] = "release_rest"
  /\ triggered_hotkeys' =
       triggered_hotkeys \ to_reset(triggered_hotkeys, local["capture"].key_str)
  /\ IF recording /\ current_keys = {}
     THEN /\ Len(queue) < MaxQueue
          /\ recording' = FALSE
          /\ queue' = Queued(queue, << Signal("recording_finished", Join("+", recorded_keys)) >>)
          /\ recorded_keys' = << >>
     ELSE UNCHANGED << recording, recorded_keys, queue >>
  /\ pc' = [ pc EXCEPT !["capture"] = "release_release" ]
  /\ UNCHANGED << hotkeys, current_keys, emitted, last, lock, local, issued, handling,
                  button_hotkey, recording_button, engine_vars >>

\* The main thread's event loop takes the next event and calls the slot
\* connected to its signal.
main_dequeue ==
  /\ pc["main"] = "idle"
  /\ queue # << >>
  /\ handling' = Head(queue)
  /\ queue' = Tail(queue)
  /\ pc' = [ pc EXCEPT !["main"] = IF Head(queue).signal = "hotkey_triggered"
                                    THEN "triggered_match" ELSE "finish_recording" ]
  /\ UNCHANGED << lock, local, issued, button_hotkey, recording_button, detector_vars,
                  engine_vars >>

\* Whether on_hotkey_triggered plays the button's sound for the hotkey.
ButtonMatches(hotkey) ==
  button_hotkey # << >> /\ NormHotkey[button_hotkey] = NormHotkey[hotkey]

\* The call self.audio_player.play_sound(...) made by SoundboardWindow.play_sound
\* from on_hotkey_triggered, which goes on at resume when the call returns.
PlayFrame(overlap, resume) ==
  [ NoLocal EXCEPT !.file_path = P_mono, !.volume = 1, !.overlap = overlap,
                   !.floor = sound_id_counter, !.resume = resume ]

\* A plausible slip: the slot takes the detector's lock for the whole of
\* its work, to read the pressed keys under it.
triggered_match_locked(overlap) ==
  /\ pc["main"] = "triggered_match"
  /\ lock.detector = "free"
  /\ lock' = [ lock EXCEPT !.detector = "main" ]
  /\ IF ButtonMatches(handling.arg)
     THEN /\ sound_id_counter < MaxTriggered
          /\ pc' = [ pc EXCEPT !["main"] = "play_load" ]
          /\ local' = [ local EXCEPT !["main"] = PlayFrame(overlap, "triggered_status") ]
     ELSE /\ pc' = [ pc EXCEPT !["main"] = "triggered_status" ]
          /\ UNCHANGED local
  /\ UNCHANGED << issued, window_vars, detector_vars, engine_vars >>

\* SoundboardWindow.on_hotkey_triggered, up to the call of play_sound for
\* the button whose normalised hotkey is the trigger's (overlap is
\* config.overlap_audio).
triggered_match(overlap) ==
  /\ pc["main"] = "triggered_match"
  /\ IF ButtonMatches(handling.arg)
     THEN /\ sound_id_counter < MaxTriggered
          /\ pc' = [ pc EXCEPT !["main"] = "play_load" ]
          /\ local' = [ local EXCEPT !["main"] = PlayFrame(overlap, "triggered_status") ]
     ELSE /\ pc' = [ pc EXCEPT !["main"] = "triggered_status" ]
          /\ UNCHANGED local
  /\ UNCHANGED << lock, issued, window_vars, detector_vars, engine_vars >>

\* combo = '+'.join(sorted(list(self.hotkey_manager.current_keys))), read
\* without the detector's lock, and shown in the status bar: the slot's
\* last statements.
triggered_status ==
  /\ pc["main"] = "triggered_status"
  /\ local' = [ local EXCEPT !["main"] = [ NoLocal EXCEPT !.combo = current_keys ] ]
  /\ handling' = NoEvent
  /\ lock' = [ lock EXCEPT !.detector = IF @ = "main" THEN "free" ELSE @ ]
  /\ pc' = [ pc EXCEPT !["main"] = "idle" ]
  /\ UNCHANGED << issued, queue, button_hotkey, recording_button, detector_vars,
                  engine_vars >>

\* SoundboardWindow.finish_hotkey_recording: with a button being recorded
\* for, set_hotkey stores the chord and emits hotkey_changed(old, new),
\* which calls on_hotkey_changed on the spot.
finish_recording ==
  /\ pc["main"] = "finish_recording"
  /\ IF recording_button
     THEN /\ button_hotkey' = handling.arg
          /\ local' = [ local EXCEPT !["main"] =
                          [ NoLocal EXCEPT !.old_hotkey = button_hotkey,
                                           !.new_hotkey = handling.arg ] ]
          /\ pc' = [ pc EXCEPT !["main"] = "changed_unregister" ]
          /\ UNCHANGED handling
     ELSE /\ pc' = [ pc EXCEPT !["main"] = "idle" ]
          /\ handling' = NoEvent
          /\ UNCHANGED << button_hotkey, local >>
  /\ UNCHANGED << lock, issued, queue, recording_button, detector_vars, engine_vars >>

\* on_hotkey_changed: if old_hotkey: self.hotkey_manager.unregister(old_hotkey)
changed_unregister ==
  /\ pc["main"] = "changed_unregister"
  /\ pc' = [ pc EXCEPT !["main"] = IF local["main"].old_hotkey # << >>
                                    THEN "unregister_acquire" ELSE "changed_register" ]
  /\ UNCHANGED << lock, local, issued, window_vars, detector_vars, engine_vars >>

\* The block of unregister, run under the lock.
unregister_body ==
  /\ pc["main"] = "unregister_body"
  /\ hotkeys' = hotkeys \ { NormHotkey[local["main"].old_hotkey] }
  /\ pc' = [ pc EXCEPT !["main"] = "unregister_release" ]
  /\ UNCHANGED << current_keys, triggered_hotkeys, recording, recorded_keys, emitted,
                  last, lock, local, issued, window_vars, engine_vars >>

\* on_hotkey_changed: if new_hotkey: self.hotkey_manager.register(new_hotkey)
changed_register ==
  /\ pc["main"] = "changed_register"
  /\ pc' = [ pc EXCEPT !["main"] = IF local["main"].new_hotkey # << >>
                                    THEN "register_acquire" ELSE "changed_done" ]
  /\ UNCHANGED << lock, local, issued, window_vars, detector_vars, engine_vars >>

\* The block of register, run under the lock.
register_body ==
  /\ pc["main"] = "register_body"
  /\ hotkeys' = hotkeys \cup { NormHotkey[local["main"].new_hotkey] }
  /\ pc' = [ pc EXCEPT !["main"] = "register_release" ]
  /\ UNCHANGED << current_keys, triggered_hotkeys, recording, recorded_keys, emitted,
                  last, lock, local, issued, window_vars, engine_vars >>

\* The end of finish_hotkey_recording: self.recording_button = None
changed_done ==
  /\ pc["main"] = "changed_done"
  /\ recording_button' = FALSE
  /\ handling' = NoEvent
  /\ local' = [ local EXCEPT !["main"] = NoLocal ]
  /\ pc' = [ pc EXCEPT !["main"] = "idle" ]
  /\ UNCHANGED << lock, issued, queue, button_hotkey, detector_vars, engine_vars >>

\* SoundboardWindow.start_hotkey_recording, up to the call of start_recording
record_call ==
  /\ pc["main"] = "idle"
  /\ recording_button' = TRUE
  /\ pc' = [ pc EXCEPT !["main"] = "start_recording_acquire" ]
  /\ UNCHANGED << lock, local, issued, queue, handling, button_hotkey, detector_vars,
                  engine_vars >>

\* The block of start_recording, run under the lock.
start_recording_body ==
  /\ pc["main"] = "start_recording_body"
  /\ recording' = TRUE
  /\ recorded_keys' = << >>
  /\ current_keys' = {}
  /\ pc' = [ pc EXCEPT !["main"] = "start_recording_release" ]
  /\ UNCHANGED << hotkeys, triggered_hotkeys, emitted, last, lock, local, issued,
                  window_vars, engine_vars >>

(***************************************************************************)
(* The output stream.  blocksize is the block size the stream was opened   *)
(* with (0 while self.stream is None): a started stream invokes the mix    *)
(* callback with that many frames.  blocks records, for every identifier   *)
(* issued, the length of its buffer, whether it has ever been paused, and  *)
(* how many mix callbacks have run while it was in active_sounds (counted  *)
(* as long as it has never been paused).                                   *)
(***************************************************************************)
VARIABLES blocksize, blocks

stream_vars == << blocksize, blocks >>

\* AudioPlayer.__init__: self.stream = None
InitStream ==
  /\ blocksize = 0
  /\ blocks = [ id \in {} |-> 0 ]

\* What a step of the player adds to blocks.
Observed ==
  blocks' =
    [ id \in DOMAIN blocks \cup DOMAIN active_sounds' |->
        IF id \notin DOMAIN blocks
        THEN [ length |-> Len(active_sounds'[id].samples), count |-> 0, paused |-> FALSE ]
        ELSE IF /\ id \in DOMAIN active_sounds
                /\ ~blocks[id].paused
                /\ call'.op = "_audio_callback"
        THEN [ blocks[id] EXCEPT !.count = @ + 1 ]
        ELSE IF id \in DOMAIN active_sounds' /\ active_sounds'[id].paused
        THEN [ blocks[id] EXCEPT !.paused = TRUE ]
        ELSE blocks[id] ]

\* The stream invokes _audio_callback with a block of its block size.
stream_callback == blocksize # 0 /\ _audio_callback(blocksize)

(***************************************************************************)
(* The callers of load_audio.  held is what the last call of load_audio    *)
(* returned, as its caller holds it: the path, ok FALSE for None, the      *)
(* array's contents, and whether the array is the object the cache holds   *)
(* for the path.  decodes counts the calls of sf.read: all of them         *)
(* (total), those for each path (of), and for each path those that led to  *)
(* a successful load since the cache was last cleared (fresh).             *)
(***************************************************************************)
VARIABLES held, decodes

store_vars == << held, decodes >>

\* The most calls of sf.read in the states explored.
MaxDecodes == 3

NoBuffer == [ path |-> "", ok |-> FALSE, samples |-> << >>, shared |-> FALSE ]

InitStore ==
  /\ held = NoBuffer
  /\ decodes = [ total |-> 0, of |-> [ p \in AllPaths |-> 0 ],
                 fresh |-> [ p \in AllPaths |-> 0 ] ]

\* decodes after the load of file_path with the result loaded.
Counted(file_path, loaded) ==
  IF loaded.decoded
  THEN [ total |-> decodes.total + 1,
         of |-> [ decodes.of EXCEPT ![file_path] = @ + 1 ],
         fresh |-> IF loaded.ok
                   THEN [ decodes.fresh EXCEPT ![file_path] = @ + 1 ]
                   ELSE decodes.fresh ]
  ELSE decodes

\* A call of load_audio whose caller keeps the array.
store_load(file_path) ==
  LET loaded == load_audio(file_path, _audio_cache)
  IN /\ loaded.decoded => decodes.total < MaxDecodes
     /\ _audio_cache' = loaded.cache
     /\ held' = [ path |-> file_path, ok |-> loaded.ok, samples |-> loaded.samples,
                  shared |-> loaded.shared ]
     /\ decodes' = Counted(file_path, loaded)
     /\ call' = Call("load_audio", 0, << >>)
     /\ outdata' = << >>
     /\ UNCHANGED << active_sounds, sound_id_counter, master_volume, is_playing >>

\* samples[:] = 0 on an array.
Silenced(samples) ==
  [ i \in 1..Len(samples) |-> [ c \in 1..Len(samples[i]) |-> 0 ] ]

\* The caller writes into the array it holds; an array that is the cache's
\* own object changes in the cache too.
store_mutate ==
  /\ held.ok
  /\ held.samples # Silenced(held.samples)
  /\ held' = [ held EXCEPT !.samples = Silenced(@) ]
  /\ _audio_cache' = IF held.shared /\ held.path \in DOMAIN _audio_cache
                     THEN [ _audio_cache EXCEPT ![held.path] = Silenced(@) ]
                     ELSE _audio_cache
  /\ call' = Call("mutate", 0, << >>)
  /\ outdata' = << >>
  /\ UNCHANGED << active_sounds, sound_id_counter, master_volume, is_playing, decodes >>

\* clear_cache, after which no array held is the cache's.
store_clear ==
  /\ clear_cache
  /\ held' = [ held EXCEPT !.shared = FALSE ]
  /\ decodes' = [ decodes EXCEPT !.fresh = [ p \in AllPaths |-> 0 ] ]

\* play_sound, counted.
store_play(file_path, volume, overlap) ==
  LET loaded == load_audio(file_path, _audio_cache)
  IN /\ loaded.decoded => decodes.total < MaxDecodes
     /\ play_sound(file_path, volume, overlap)
     /\ decodes' = Counted(file_path, loaded)
     /\ UNCHANGED held

(***************************************************************************)
(* The window's use of the player: the microphones it mutes while sounds   *)
(* play, the status timer, and closeEvent.  mic_muted is the window's      *)
(* flag, mics_muted whether the real microphones are muted (what           *)
(* mute_all_real_mics last did), mute_mic_while_playing the setting;       *)
(* status is what update_status has read of is_playing ("idle" outside     *)
(* the handler); closing is the step of closeEvent last completed ("open"  *)
(* before the window is closed); listener is HotkeyManager.listener and    *)
(* capture the state of its thread, join_expired whether join returned     *)
(* while the thread was still running; log is what closeEvent has printed. *)
(***************************************************************************)
VARIABLES mic_muted, mics_muted, mute_mic_while_playing, status, closing,
          listener, capture, join_expired, log

controller_vars == << mic_muted, mics_muted, mute_mic_while_playing, status,
                      closing, listener, capture, join_expired, log >>

\* SoundboardWindow.__init__ before hotkey_manager.start(), with the
\* setting's default.
InitController ==
  /\ mic_muted = FALSE
  /\ mics_muted = FALSE
  /\ mute_mic_while_playing = TRUE
  /\ status = "idle"
  /\ closing = "open"
  /\ listener = "none"
  /\ capture = "none"
  /\ join_expired = FALSE
  /\ log = {}

\* The window handles events: it is not closing and is in no handler.
Handling == closing = "open" /\ status = "idle"

\* SoundboardWindow.on_mute_mic_changed
on_mute_mic_changed(checked) ==
  /\ Handling
  /\ mute_mic_while_playing' = checked
  /\ UNCHANGED << mic_muted, mics_muted, status, closing, listener, capture,
                  join_expired, log >>

\* SoundboardWindow.play_sound: the microphones are muted, then the player
\* is called.
window_play_sound(file_path, volume, overlap) ==
  /\ Handling
  /\ IF mute_mic_while_playing /\ ~mic_muted
     THEN mics_muted' = TRUE /\ mic_muted' = TRUE
     ELSE UNCHANGED << mics_muted, mic_muted >>
  /\ play_sound(file_path, volume, overlap)
  /\ UNCHANGED << mute_mic_while_playing, status, closing, listener, capture,
                  join_expired, log >>

\* SoundboardWindow.stop_sound of a button that shows sound_id.
window_stop_sound(sound_id) ==
  /\ Handling
  /\ stop_sound(sound_id)
  /\ UNCHANGED controller_vars

\* SoundButton's pause button.
window_toggle_pause(sound_id) ==
  /\ Handling
  /\ toggle_pause_sound(sound_id)
  /\ UNCHANGED controller_vars

\* SoundboardWindow.stop_all_sounds
stop_all_sounds ==
  /\ Handling
  /\ stop_all
  /\ IF mic_muted
     THEN mics_muted' = FALSE /\ mic_muted' = FALSE
     ELSE UNCHANGED << mics_muted, mic_muted >>
  /\ UNCHANGED << mute_mic_while_playing, status, closing, listener, capture,
                  join_expired, log >>

\* SoundboardWindow.update_status up to its test of is_playing, which it
\* reads without the player's lock.
update_status_read ==
  /\ Handling
  /\ status' = IF is_playing THEN "playing" ELSE "stopped"
  /\ UNCHANGED << mic_muted, mics_muted, mute_mic_while_playing, closing,
                  listener, capture, join_expired, log >>

\* A plausible slip: the timer's handler never unmutes.
StatusUnmutesNever(seen, playing) == FALSE

\* The two branches of update_status: in the first is_playing is read
\* again, in the second the microphones are unmuted whenever mic_muted.
StatusUnmutes(seen, playing) == IF seen = "playing" THEN ~playing ELSE TRUE

\* The rest of SoundboardWindow.update_status.
update_status_act ==
  /\ closing = "open"
  /\ status # "idle"
  /\ status' = "idle"
  /\ IF mic_muted /\ StatusUnmutes(status, is_playing)
     THEN mics_muted' = FALSE /\ mic_muted' = FALSE
     ELSE UNCHANGED << mics_muted, mic_muted >>
  /\ UNCHANGED << mute_mic_while_playing, closing, listener, capture,
                  join_expired, log >>

\* closeEvent, step 1: self.audio_player.stop_all()
close_stop_all ==
  /\ Handling
  /\ stop_all
  /\ closing' = "stop_all"
  /\ log' = log \cup { "Shutting down" }
  /\ UNCHANGED << mic_muted, mics_muted, mute_mic_while_playing, status,
                  listener, capture, join_expired >>

\* closeEvent, step 1: self.audio_player.stop_stream().  stream.stop() may
\* raise (PortAudioError): closeEvent's handler prints the error and the
\* steps that follow are skipped.
close_stop_stream ==
  /\ closing = "stop_all"
  /\ \E raised \in BOOLEAN :
       IF raised /\ blocksize # 0
       THEN /\ closing' = "cleanup"
            /\ log' = log \cup { "Cleanup error" }
            /\ UNCHANGED blocksize
       ELSE /\ closing' = "stop_stream"
            /\ blocksize' = 0
            /\ UNCHANGED log
  /\ UNCHANGED << mic_muted, mics_muted, mute_mic_while_playing, status,
                  listener, capture, join_expired >>

\* HotkeyManager.stop, called by closeEvent (step 3): the listener is told
\* to stop and joined for at most a second; whether its thread has ended
\* by then is not tested.
close_hotkeys ==
  /\ closing = "stop_stream"
  /\ closing' = "hotkeys"
  /\ IF listener # "none"
     THEN /\ listener' = "none"
          /\ \E ended \in BOOLEAN :
               /\ capture' = IF ended THEN "ended" ELSE "stopping"
               /\ join_expired' = ~ended
     ELSE UNCHANGED << listener, capture, join_expired >>
  /\ UNCHANGED << mic_muted, mics_muted, mute_mic_while_playing, status, log >>

\* The listener's thread ends after the join has given up.
capture_ends ==
  /\ capture = "stopping"
  /\ closing # "exited"
  /\ capture' = "ended"
  /\ UNCHANGED << mic_muted, mics_muted, mute_mic_while_playing, status,
                  closing, listener, join_expired, log >>

\* closeEvent, steps 4 and 5: save_config, then the microphones are
\* unmuted if mic_muted (the flag is left as it is).
close_restore_mic ==
  /\ closing = "hotkeys"
  /\ closing' = "cleanup"
  /\ mics_muted' = IF mic_muted THEN FALSE ELSE mics_muted
  /\ UNCHANGED << mic_muted, mute_mic_while_playing, status, listener,
                  capture, join_expired, log >>

\* closeEvent, step 6 and the end: remove_virtual_sink, os._exit(0).
close_exit ==
  /\ closing = "cleanup"
  /\ closing' = "exited"
  /\ log' = log \cup { "Exiting" }
  /\ UNCHANGED << mic_muted, mics_muted, mute_mic_while_playing, status,
                  listener, capture, join_expired >>

(***************************************************************************)
(* The keyboard.  down is the set of keys that are physically held: the    *)
(* listener delivers a press when a key goes down (and again while it is   *)
(* held, by auto-repeat) and a release when it goes up, whatever the       *)
(* detector has been told in between.                                      *)
(***************************************************************************)
VARIABLES down

keyboard_vars == << down >>

\* No key is held when the listener starts.
InitKeyboard == down = {}

\* A key goes down, or repeats: the listener calls _on_press.
key_down(key) ==
  /\ down' = down \cup { key }
  /\ _on_press(key)

\* A key that is held goes up: the listener calls _on_release.
key_up(key) ==
  /\ key \in down
  /\ down' = down \ { key }
  /\ _on_release(key)

(***************************************************************************)
(* The sound buttons and their hotkeys.  sound_buttons maps every button   *)
(* of the window to its sound's hotkey, a string ("" when it has none);    *)
(* recording_for is the button a chord is being recorded for (0 when       *)
(* self.recording_button is None).  The handlers run on the main thread,   *)
(* one at a time, and call register and unregister from there.             *)
(***************************************************************************)
VARIABLES sound_buttons, recording_for

buttons_vars == << sound_buttons, recording_for >>

\* The most buttons in the states explored.
MaxButtons == 2

ButtonIds == 1..MaxButtons

\* A window with no sound configured.
InitButtons ==
  /\ sound_buttons = [ b \in {} |-> << >> ]
  /\ recording_for = 0

\* self.hotkeys after HotkeyManager.register(hotkey)
Registered(registered, hotkey) ==
  IF hotkey = << >> THEN registered ELSE registered \cup { NormHotkey[hotkey] }

\* self.hotkeys after HotkeyManager.unregister(hotkey)
Unregistered(registered, hotkey) ==
  IF hotkey = << >> THEN registered ELSE registered \ { NormHotkey[hotkey] }

\* self.hotkeys after SoundboardWindow.on_hotkey_changed(old_hotkey, new_hotkey)
Changed(registered, old_hotkey, new_hotkey) ==
  Registered(Unregistered(registered, old_hotkey), new_hotkey)

\* button != self.recording_button and button.sound.hotkey == hotkey
Conflicts(buttons, b, hotkey) ==
  { other \in DOMAIN buttons \ { b } : buttons[other] = hotkey }

\* self.hotkeys after clear_hotkey() on every button of the set: each emits
\* hotkey_changed(old_hotkey, "").
RECURSIVE ClearedAll(_, _, _)
ClearedAll(registered, buttons, todo) ==
  IF todo = {} THEN registered
  ELSE LET b == SetMin(todo)
       IN ClearedAll(Changed(registered, buttons[b], << >>), buttons, todo \ { b })

\* What the detector is left as by a handler that registers and
\* unregisters.
detector_told(name, hotkey) ==
  /\ emitted' = << >>
  /\ last' = Op(name, NoKey, hotkey)
  /\ UNCHANGED << current_keys, triggered_hotkeys, recording, recorded_keys >>

\* SoundboardWindow.add_sound_button: a new button, whose sound has no
\* hotkey.
add_sound_button(b) ==
  /\ b \notin DOMAIN sound_buttons
  /\ sound_buttons' = [ x \in DOMAIN sound_buttons \cup { b } |->
                          IF x = b THEN << >> ELSE sound_buttons[x] ]
  /\ UNCHANGED << recording_for, detector_vars >>

\* SoundboardWindow.start_hotkey_recording
start_hotkey_recording(b) ==
  /\ b \in DOMAIN sound_buttons
  /\ recording_for' = b
  /\ start_recording
  /\ UNCHANGED sound_buttons

\* SoundboardWindow.finish_hotkey_recording, with the calls of
\* on_hotkey_changed that clear_hotkey and set_hotkey make.
finish_hotkey_recording(hotkey) ==
  /\ recording_for # 0
  /\ LET conflicts == Conflicts(sound_buttons, recording_for, hotkey)
         cleared == ClearedAll(hotkeys, sound_buttons, conflicts)
     IN /\ sound_buttons' =
             [ b \in DOMAIN sound_buttons |->
                 IF b = recording_for THEN hotkey
                 ELSE IF b \in conflicts THEN << >>
                 ELSE sound_buttons[b] ]
        /\ hotkeys' = Changed(cleared, sound_buttons[recording_for], hotkey)
  /\ recording_for' = 0
  /\ detector_told("finish_hotkey_recording", hotkey)

\* SoundButton.clear_hotkey, from the button's own clear button.
clear_hotkey(b) ==
  /\ b \in DOMAIN sound_buttons
  /\ sound_buttons' = [ sound_buttons EXCEPT ![b] = << >> ]
  /\ hotkeys' = Changed(hotkeys, sound_buttons[b], << >>)
  /\ detector_told("clear_hotkey", sound_buttons[b])
  /\ UNCHANGED recording_for

\* SoundboardWindow.remove_sound
remove_sound(b) ==
  /\ b \in DOMAIN sound_buttons
  /\ b # recording_for
  /\ sound_buttons' = [ x \in DOMAIN sound_buttons \ { b } |-> sound_buttons[x] ]
  /\ hotkeys' = Unregistered(hotkeys, sound_buttons[b])
  /\ detector_told("remove_sound", sound_buttons[b])
  /\ UNCHANGED recording_for

(***************************************************************************)
(* The mix callback sound by sound.  mixing is the callback under way: at  *)
(* is "idle" between callbacks and "loop" inside the 'with self.lock'      *)
(* block, todo the sounds the loop has still to visit, mixed and           *)
(* finished_ids the loop's variables, frames the block's size, and masters *)
(* the values of self.master_volume the loop has read so far (kept after   *)
(* the callback, until the next one begins).                               *)
(***************************************************************************)
VARIABLES mixing

mixer_vars == << mixing >>

NotMixing ==
  [ at |-> "idle", todo |-> {}, mixed |-> << >>, finished_ids |-> {}, frames |-> 0,
    masters |-> {} ]

InitMixer == mixing = NotMixing

\* _audio_callback up to its loop: mixed = np.zeros(...), with self.lock:
\* finished_ids = []
mix_begin(frames) ==
  /\ mixing.at = "idle"
  /\ lock.engine = "free"
  /\ lock' = [ lock EXCEPT !.engine = "audio" ]
  /\ mixing' = [ at |-> "loop", todo |-> DOMAIN active_sounds, mixed |-> Zeros(frames),
                 finished_ids |-> {}, frames |-> frames, masters |-> {} ]
  /\ UNCHANGED << pc, local, issued, engine_vars >>

\* Whether an iteration reads self.master_volume: if to_copy > 0: chunk =
\* ... * volume * self.master_volume
ReadsMaster(sound_data, frames) ==
  /\ ~IsSkipped(sound_data)
  /\ Min(frames, Len(sound_data.samples) - sound_data.position) > 0

\* One iteration of the loop of _audio_callback, with the master volume
\* as it is when the iteration runs.
mix_voice ==
  /\ mixing.at = "loop"
  /\ mixing.todo # {}
  /\ LET sound_id == SetMin(mixing.todo)
     IN \E done \in { MixLoop({ sound_id }, active_sounds, mixing.mixed,
                              mixing.finished_ids, mixing.frames, master_volume) } :
          /\ active_sounds' = done.sounds
          /\ mixing' = [ mixing EXCEPT
                           !.todo = @ \ { sound_id },
                           !.mixed = done.mixed,
                           !.finished_ids = done.finished_ids,
                           !.masters = IF ReadsMaster(active_sounds[sound_id], mixing.frames)
                                       THEN @ \cup { master_volume } ELSE @ ]
  /\ UNCHANGED << pc, lock, local, issued, sound_id_counter, master_volume, is_playing,
                  _audio_cache, outdata, call >>

\* The end of _audio_callback: the finished sounds are deleted, the flag is
\* set, the lock is released and the block is written.
mix_end ==
  /\ mixing.at = "loop"
  /\ mixing.todo = {}
  /\ \E sounds \in { Without(active_sounds, mixing.finished_ids) } :
       /\ active_sounds' = sounds
       /\ is_playing' = StillPlaying(sounds)
  /\ outdata' = mixing.mixed
  /\ call' = Call("_audio_callback", 0, << >>)
  /\ lock' = [ lock EXCEPT !.engine = "free" ]
  /\ mixing' = [ NotMixing EXCEPT !.masters = mixing.masters ]
  /\ UNCHANGED << pc, local, issued, sound_id_counter, master_volume, _audio_cache >>

\* An operation of the player that takes the lock, called while it is free.
locked(operation) ==
  /\ lock.engine = "free"
  /\ operation
  /\ UNCHANGED << thread_vars, mixing >>

\* An operation of the player that takes no lock, called at any moment.
unlocked(operation) ==
  /\ operation
  /\ UNCHANGED << thread_vars, mixing >>

(***************************************************************************)
(* load_audio and clear_cache called from two threads, load_audio in the   *)
(* steps a thread switch can separate: neither takes a lock.  A thread     *)
(* whose call ended with an exception that load_audio did not catch is at  *)
(* "load_raised".                                                          *)
(***************************************************************************)

\* A call of load_audio by thread t.
load_call(t, file_path) ==
  /\ pc[t] = "idle"
  /\ pc' = [ pc EXCEPT ![t] = "load_test" ]
  /\ local' = [ local EXCEPT ![t] = [ NoLocal EXCEPT !.file_path = file_path ] ]
  /\ UNCHANGED << lock, issued, engine_vars >>

\* if file_path in self._audio_cache:
load_test(t) ==
  /\ pc[t] = "load_test"
  /\ pc' = [ pc EXCEPT ![t] = IF IsCached(local[t].file_path, _audio_cache)
                              THEN "load_read" ELSE "load_decode" ]
  /\ UNCHANGED << lock, local, issued, engine_vars >>

\* return self._audio_cache[file_path].copy(), outside the try block: the
\* subscript raises KeyError when the entry is no longer there.
load_read(t) ==
  /\ pc[t] = "load_read"
  /\ IF local[t].file_path \in DOMAIN _audio_cache
     THEN /\ pc' = [ pc EXCEPT ![t] = "idle" ]
          /\ call' = Call("load_audio", 0, << _audio_cache[local[t].file_path] >>)
     ELSE /\ pc' = [ pc EXCEPT ![t] = "load_raised" ]
          /\ call' = Call("load_audio", 0, << >>)
  /\ local' = [ local EXCEPT ![t] = NoLocal ]
  /\ outdata' = << >>
  /\ UNCHANGED << lock, issued, active_sounds, sound_id_counter, master_volume,
                  is_playing, _audio_cache >>

\* The try block of load_audio: the file is decoded and cached, or the
\* exception is caught and None returned.
load_decode(t) ==
  LET file_path == local[t].file_path
  IN /\ pc[t] = "load_decode"
     /\ IF Decoded[file_path].ok
        THEN /\ _audio_cache' =
                  [ p \in DOMAIN _audio_cache \cup { file_path } |->
                      IF p = file_path THEN Decoded[file_path].samples
                      ELSE _audio_cache[p] ]
             /\ call' = Call("load_audio", 0, << Decoded[file_path].samples >>)
        ELSE /\ _audio_cache' = OnError(file_path, _audio_cache)
             /\ call' = Call("load_audio", 0, << >>)
     /\ pc' = [ pc EXCEPT ![t] = "idle" ]
     /\ local' = [ local EXCEPT ![t] = NoLocal ]
     /\ outdata' = << >>
     /\ UNCHANGED << lock, issued, active_sounds, sound_id_counter, master_volume,
                     is_playing >>

\* clear_cache called by thread t.
clear_call(t) ==
  /\ pc[t] = "idle"
  /\ clear_cache
  /\ UNCHANGED thread_vars

(***************************************************************************)
(* Specifications.  Each explores one component and leaves the others as   *)
(* constructed.                                                            *)
(***************************************************************************)
vars == << detector_vars, engine_vars, thread_vars, window_vars, stream_vars,
           store_vars, controller_vars, keyboard_vars,
     buttons_vars, mixer_vars >>

\* A player and a window as constructed, no thread running.
InitOthers ==
  /\ InitEngine /\ InitThreads /\ InitWindow /\ InitStream /\ InitStore
  /\ InitController /\ InitKeyboard /\ InitButtons /\ InitMixer

\* The application as constructed.
InitApp == Init /\ InitOthers

\* What a step of the detector alone, and of the player alone, leaves as it is.
detector_frame ==
  << engine_vars, thread_vars, window_vars, stream_vars, store_vars, controller_vars,
     keyboard_vars,
     buttons_vars, mixer_vars >>

engine_frame ==
  << detector_vars, thread_vars, window_vars, stream_vars, store_vars, controller_vars,
     keyboard_vars,
     buttons_vars, mixer_vars >>

\* What a step of a thread inside the player leaves as it is.
players_frame ==
  << detector_vars, window_vars, stream_vars, store_vars, controller_vars,
     keyboard_vars,
     buttons_vars, mixer_vars >>

\* What a step of the window or of the detector on its thread leaves as it is.
window_frame ==
  << stream_vars, store_vars, controller_vars,
     keyboard_vars,
     buttons_vars, mixer_vars >>

\* What a step of the player leaves as it is when the stream is observed.
stream_frame ==
  << blocksize, detector_vars, thread_vars, window_vars, store_vars, controller_vars,
     keyboard_vars,
     buttons_vars, mixer_vars >>

\* What a step of the player leaves as it is when its loads are counted.
store_frame ==
  << detector_vars, thread_vars, window_vars, stream_vars, controller_vars,
     keyboard_vars,
     buttons_vars, mixer_vars >>

\* The detector alone: every operation of a HotkeyManager.
Next ==
  \/ \E key \in CoreKeys : _on_press(key) /\ UNCHANGED detector_frame
  \/ \E key \in CoreKeys : _on_release(key) /\ UNCHANGED detector_frame
  \/ \E hotkey \in ChordStrings : register(hotkey) /\ UNCHANGED detector_frame
  \/ \E hotkey \in ChordStrings : unregister(hotkey) /\ UNCHANGED detector_frame
  \/ clear_all /\ UNCHANGED detector_frame
  \/ start_recording /\ UNCHANGED detector_frame

Spec == InitApp /\ [][Next]_vars

(***************************************************************************)
(* The detector with the chord {ctrl, a} registered (by register calls     *)
(* made before any key is delivered) and fed key events only: no session   *)
(* is started and the registered set does not change.                      *)
(***************************************************************************)
CtrlA == << "a", "+", "c", "t", "r", "l" >>

InitChord ==
  /\ hotkeys \in { { CtrlA } \cup S : S \in SUBSET { NormHotkey[S_a], NormHotkey[S_1] } }
  /\ Cardinality(hotkeys) <= MaxHotkeys
  /\ current_keys = {}
  /\ triggered_hotkeys = {}
  /\ recording = FALSE
  /\ recorded_keys = << >>
  /\ emitted = << >>
  /\ last = Op("init", NoKey, << >>)

NextChord ==
  \/ \E key \in RawKeys : _on_press(key) /\ UNCHANGED detector_frame
  \/ \E key \in RawKeys : _on_release(key) /\ UNCHANGED detector_frame

InitAppChord == InitChord /\ InitOthers

SpecChord == InitAppChord /\ [][NextChord]_vars

(***************************************************************************)
(* The detector with the named keys' own names registered as chords.       *)
(***************************************************************************)
NextKeys ==
  \/ \E key \in NamedKeys : _on_press(key) /\ UNCHANGED detector_frame
  \/ \E key \in NamedKeys : _on_release(key) /\ UNCHANGED detector_frame
  \/ \E hotkey \in KeyNameStrings \cup { S_a_ctrl } : register(hotkey) /\ UNCHANGED detector_frame
  \/ \E hotkey \in KeyNameStrings \cup { S_a_ctrl } : unregister(hotkey) /\ UNCHANGED detector_frame

SpecKeys == InitApp /\ [][NextKeys]_vars

(***************************************************************************)
(* The detector asked to register strings that name no key.                *)
(***************************************************************************)
NextBlank ==
  \/ \E key \in { K_a, K_shift } : _on_press(key) /\ UNCHANGED detector_frame
  \/ \E key \in { K_a, K_shift } : _on_release(key) /\ UNCHANGED detector_frame
  \/ \E hotkey \in BlankStrings \cup { S_empty, S_a } : register(hotkey) /\ UNCHANGED detector_frame
  \/ \E hotkey \in BlankStrings \cup { S_empty, S_a } : unregister(hotkey) /\ UNCHANGED detector_frame

SpecBlank == InitApp /\ [][NextBlank]_vars

(***************************************************************************)
(* Recording sessions at a keyboard: keys go down and up, and a session is *)
(* started at any moment, also while keys are held.                        *)
(***************************************************************************)
SessionKeys == { K_ctrl_l, K_shift, K_a, K_1 }

session_frame ==
  << engine_vars, thread_vars, window_vars, stream_vars, store_vars, controller_vars,
     buttons_vars, mixer_vars >>

NextSession ==
  \/ \E key \in SessionKeys : key_down(key) /\ UNCHANGED session_frame
  \/ \E key \in SessionKeys : key_up(key) /\ UNCHANGED session_frame
  \/ start_recording /\ UNCHANGED << down, session_frame >>

SpecSession == InitApp /\ [][NextSession]_vars

(***************************************************************************)
(* The buttons' hotkeys: buttons are added and removed, and chords that    *)
(* the detector recorded, in the order their keys were pressed, are        *)
(* assigned to them and cleared.                                           *)
(***************************************************************************)
RecordedStrings == { S_ctrl_a, S_a_ctrl, S_a }

buttons_frame ==
  << engine_vars, thread_vars, window_vars, stream_vars, store_vars, controller_vars,
     keyboard_vars, mixer_vars >>

NextButtons ==
  \/ \E b \in ButtonIds : add_sound_button(b) /\ UNCHANGED buttons_frame
  \/ \E b \in ButtonIds : start_hotkey_recording(b) /\ UNCHANGED buttons_frame
  \/ \E hotkey \in RecordedStrings : finish_hotkey_recording(hotkey) /\ UNCHANGED buttons_frame
  \/ \E b \in ButtonIds : clear_hotkey(b) /\ UNCHANGED buttons_frame
  \/ \E b \in ButtonIds : remove_sound(b) /\ UNCHANGED buttons_frame

SpecButtons == InitApp /\ [][NextButtons]_vars

(***************************************************************************)
(* Chords unregistered and registered again at a keyboard whose keys are   *)
(* held meanwhile.                                                         *)
(***************************************************************************)
LatchKeys == { K_ctrl_l, K_a, K_1 }

LatchStrings == { S_ctrl_a, S_a, S_1 }

NextLatch ==
  \/ \E key \in LatchKeys : key_down(key) /\ UNCHANGED session_frame
  \/ \E key \in LatchKeys : key_up(key) /\ UNCHANGED session_frame
  \/ \E hotkey \in LatchStrings : register(hotkey) /\ UNCHANGED << down, session_frame >>
  \/ \E hotkey \in LatchStrings : unregister(hotkey) /\ UNCHANGED << down, session_frame >>
  \/ clear_all /\ UNCHANGED << down, session_frame >>

SpecLatch == InitApp /\ [][NextLatch]_vars

(***************************************************************************)
(* The mix callback taken sound by sound while the main thread plays and   *)
(* pauses sounds of one frame and sets the master volume.                  *)
(***************************************************************************)
mixer_frame ==
  << detector_vars, window_vars, stream_vars, store_vars, controller_vars,
     keyboard_vars, buttons_vars >>

NextMixer ==
  \/ locked(play_sound(P_mono, 1, TRUE)) /\ UNCHANGED mixer_frame
  \/ \E sound_id \in SoundIds : locked(toggle_pause_sound(sound_id)) /\ UNCHANGED mixer_frame
  \/ \E volume \in MasterVolumes : unlocked(set_master_volume(volume)) /\ UNCHANGED mixer_frame
  \/ mix_begin(1) /\ UNCHANGED mixer_frame
  \/ mix_voice /\ UNCHANGED mixer_frame
  \/ mix_end /\ UNCHANGED mixer_frame

SpecMixer == InitApp /\ [][NextMixer]_vars

(***************************************************************************)
(* The cache used from two threads: each loads files and clears the cache. *)
(***************************************************************************)
NextLoaders ==
  \/ \E t \in Players, file_path \in Paths :
       load_call(t, file_path) /\ UNCHANGED << mixing, mixer_frame >>
  \/ \E t \in Players : load_test(t) /\ UNCHANGED << mixing, mixer_frame >>
  \/ \E t \in Players : load_read(t) /\ UNCHANGED << mixing, mixer_frame >>
  \/ \E t \in Players : load_decode(t) /\ UNCHANGED << mixing, mixer_frame >>
  \/ \E t \in Players : clear_call(t) /\ UNCHANGED << mixing, mixer_frame >>

SpecLoaders == InitApp /\ [][NextLoaders]_vars

(***************************************************************************)
(* The engine alone: every operation of an AudioPlayer, each as one step   *)
(* (the operations on active_sounds run under the player's lock).          *)
(***************************************************************************)
NextEngine ==
  \/ \E file_path \in Paths, volume \in PlayVolumes, overlap \in BOOLEAN :
       play_sound(file_path, volume, overlap) /\ UNCHANGED engine_frame
  \/ \E sound_id \in SoundIds : toggle_pause_sound(sound_id) /\ UNCHANGED engine_frame
  \/ \E sound_id \in SoundIds : stop_sound(sound_id) /\ UNCHANGED engine_frame
  \/ \E sound_id \in SoundIds, volume \in SetVolumes :
       set_sound_volume(sound_id, volume) /\ UNCHANGED engine_frame
  \/ stop_all /\ UNCHANGED engine_frame
  \/ \E volume \in MasterVolumes : set_master_volume(volume) /\ UNCHANGED engine_frame
  \/ \E frames \in BlockSizes : _audio_callback(frames) /\ UNCHANGED engine_frame

SpecEngine == InitApp /\ [][NextEngine]_vars

(***************************************************************************)
(* The engine given volumes inside and outside the range 0.0 to 2.0, for   *)
(* sounds of one frame.                                                    *)
(***************************************************************************)
NextGains ==
  \/ \E volume \in Gains, overlap \in BOOLEAN :
       play_sound(P_mono, volume, overlap) /\ UNCHANGED engine_frame
  \/ \E sound_id \in SoundIds, volume \in Gains :
       set_sound_volume(sound_id, volume) /\ UNCHANGED engine_frame
  \/ \E volume \in Gains : set_master_volume(volume) /\ UNCHANGED engine_frame
  \/ \E sound_id \in SoundIds : stop_sound(sound_id) /\ UNCHANGED engine_frame
  \/ \E sound_id \in SoundIds : toggle_pause_sound(sound_id) /\ UNCHANGED engine_frame
  \/ stop_all /\ UNCHANGED engine_frame
  \/ _audio_callback(1) /\ UNCHANGED engine_frame

SpecGains == InitApp /\ [][NextGains]_vars

(***************************************************************************)
(* The mix callback on sounds of three frames and of none, played over one *)
(* another, paused and resumed.                                            *)
(***************************************************************************)
NextCursor ==
  \/ \E file_path \in { P_long, P_empty } :
       play_sound(file_path, 1, TRUE) /\ UNCHANGED engine_frame
  \/ \E sound_id \in SoundIds : toggle_pause_sound(sound_id) /\ UNCHANGED engine_frame
  \/ \E frames \in BlockSizes : _audio_callback(frames) /\ UNCHANGED engine_frame

SpecCursor == InitApp /\ [][NextCursor]_vars

(***************************************************************************)
(* Sounds played to their end by a started stream: the stream was opened   *)
(* with one of the block sizes and invokes the mix callback again and      *)
(* again (weak fairness); sounds are played over one another and paused    *)
(* and resumed, and none is stopped.                                       *)
(***************************************************************************)
InitStarted ==
  /\ blocksize \in BlockSizes
  /\ blocks = [ id \in {} |-> 0 ]

InitAppStarted ==
  /\ Init /\ InitEngine /\ InitThreads /\ InitWindow /\ InitStarted /\ InitStore
  /\ InitController /\ InitKeyboard /\ InitButtons /\ InitMixer

NextDrain ==
  \/ \E file_path \in Paths :
       play_sound(file_path, 1, TRUE) /\ Observed /\ UNCHANGED stream_frame
  \/ \E sound_id \in SoundIds :
       toggle_pause_sound(sound_id) /\ Observed /\ UNCHANGED stream_frame
  \/ stream_callback /\ Observed /\ UNCHANGED stream_frame

SpecDrain ==
  InitAppStarted /\ [][NextDrain]_vars
  /\ WF_vars(stream_callback /\ Observed /\ UNCHANGED stream_frame)

(***************************************************************************)
(* The cache: files of every kind loaded by a caller that keeps, and may   *)
(* write into, the array it receives, and the cache cleared, while a sound *)
(* is played and mixed.                                                    *)
(***************************************************************************)
NextStore ==
  \/ \E file_path \in AllPaths : store_load(file_path) /\ UNCHANGED store_frame
  \/ store_mutate /\ UNCHANGED store_frame
  \/ store_clear /\ UNCHANGED store_frame
  \/ store_play(P_long, 1, TRUE) /\ UNCHANGED store_frame
  \/ _audio_callback(2) /\ UNCHANGED << store_vars, store_frame >>

SpecStore == InitApp /\ [][NextStore]_vars

(***************************************************************************)
(* The player called from two threads while the stream runs the mix        *)
(* callback, each operation in the steps a thread switch can separate.     *)
(***************************************************************************)
NextPlayers ==
  \/ \E t \in Players, file_path \in { P_long, P_bad }, overlap \in BOOLEAN :
       play_call(t, file_path, 1, overlap) /\ UNCHANGED players_frame
  \/ \E t \in Players : play_load(t) /\ UNCHANGED players_frame
  \/ \E t \in Threads : acquire_engine(t) /\ UNCHANGED players_frame
  \/ \E t \in Players : play_clear(t) /\ UNCHANGED players_frame
  \/ \E t \in Players : play_counter_load(t) /\ UNCHANGED players_frame
  \/ \E t \in Players : play_counter_store(t) /\ UNCHANGED players_frame
  \/ \E t \in Players : play_id(t) /\ UNCHANGED players_frame
  \/ \E t \in Players : play_insert(t) /\ UNCHANGED players_frame
  \/ \E t \in Players : play_flag(t) /\ UNCHANGED players_frame
  \/ \E t \in Threads : release_engine(t) /\ UNCHANGED players_frame
  \/ \E t \in Players : play_return(t) /\ UNCHANGED players_frame
  \/ \E t \in Players, sound_id \in SoundIds : stop_call(t, sound_id) /\ UNCHANGED players_frame
  \/ \E t \in Players : stop_body(t) /\ UNCHANGED players_frame
  \/ \E frames \in BlockSizes : cb_call(frames) /\ UNCHANGED players_frame
  \/ cb_body /\ UNCHANGED players_frame

SpecPlayers == InitApp /\ [][NextPlayers]_vars

(***************************************************************************)
(* Every operation on the table called while the stream runs the mix       *)
(* callback: the main thread plays a sound of one frame, the worker stops, *)
(* pauses and sets volumes.                                                *)
(***************************************************************************)
NextCallers ==
  \/ \E overlap \in BOOLEAN : play_call("main", P_mono, 1, overlap) /\ UNCHANGED players_frame
  \/ play_load("main") /\ UNCHANGED players_frame
  \/ \E t \in Threads : acquire_engine(t) /\ UNCHANGED players_frame
  \/ play_clear("main") /\ UNCHANGED players_frame
  \/ play_counter_load("main") /\ UNCHANGED players_frame
  \/ play_counter_store("main") /\ UNCHANGED players_frame
  \/ play_id("main") /\ UNCHANGED players_frame
  \/ play_insert("main") /\ UNCHANGED players_frame
  \/ play_flag("main") /\ UNCHANGED players_frame
  \/ \E t \in Threads : release_engine(t) /\ UNCHANGED players_frame
  \/ play_return("main") /\ UNCHANGED players_frame
  \/ \E sound_id \in SoundIds : stop_call("worker", sound_id) /\ UNCHANGED players_frame
  \/ stop_body("worker") /\ UNCHANGED players_frame
  \/ \E sound_id \in SoundIds : toggle_call("worker", sound_id) /\ UNCHANGED players_frame
  \/ toggle_body("worker") /\ UNCHANGED players_frame
  \/ \E sound_id \in SoundIds, volume \in SetVolumes :
       volume_call("worker", sound_id, volume) /\ UNCHANGED players_frame
  \/ volume_body("worker") /\ UNCHANGED players_frame
  \/ stop_all_call("worker") /\ UNCHANGED players_frame
  \/ stop_all_clear("worker") /\ UNCHANGED players_frame
  \/ stop_all_flag("worker") /\ UNCHANGED players_frame
  \/ cb_call(1) /\ UNCHANGED players_frame
  \/ cb_body /\ UNCHANGED players_frame

SpecCallers == InitApp /\ [][NextCallers]_vars

(***************************************************************************)
(* The running application: the listener's thread delivering presses and   *)
(* releases of one key, the main thread handling the queued signals and    *)
(* starting recordings, and the stream's thread mixing, each operation in  *)
(* the steps a thread switch can separate.  The window has registered its  *)
(* button's hotkey (setup_hotkeys) before the listener was started.        *)
(***************************************************************************)
InitRunning ==
  /\ hotkeys = { NormHotkey[S_a] }
  /\ current_keys = {}
  /\ triggered_hotkeys = {}
  /\ recording = FALSE
  /\ recorded_keys = << >>
  /\ emitted = << >>
  /\ last = Op("init", NoKey, << >>)

NextThreads ==
  \/ press_call(K_a) /\ UNCHANGED window_frame
  \/ release_call(K_a) /\ UNCHANGED window_frame
  \/ \E t \in Threads : acquire_detector(t) /\ UNCHANGED window_frame
  \/ \E t \in Threads : release_detector(t) /\ UNCHANGED window_frame
  \/ press_add /\ UNCHANGED window_frame
  \/ press_match /\ UNCHANGED window_frame
  \/ release_remove /\ UNCHANGED window_frame
  \/ release_rest /\ UNCHANGED window_frame
  \/ main_dequeue /\ UNCHANGED window_frame
  \/ \E overlap \in BOOLEAN : triggered_match(overlap) /\ UNCHANGED window_frame
  \/ play_load("main") /\ UNCHANGED players_frame
  \/ \E t \in Threads : acquire_engine(t) /\ UNCHANGED players_frame
  \/ play_clear("main") /\ UNCHANGED players_frame
  \/ play_counter_load("main") /\ UNCHANGED players_frame
  \/ play_counter_store("main") /\ UNCHANGED players_frame
  \/ play_id("main") /\ UNCHANGED players_frame
  \/ play_insert("main") /\ UNCHANGED players_frame
  \/ play_flag("main") /\ UNCHANGED players_frame
  \/ \E t \in Threads : release_engine(t) /\ UNCHANGED players_frame
  \/ play_return("main") /\ UNCHANGED players_frame
  \/ triggered_status /\ UNCHANGED window_frame
  \/ finish_recording /\ UNCHANGED window_frame
  \/ changed_unregister /\ UNCHANGED window_frame
  \/ unregister_body /\ UNCHANGED window_frame
  \/ changed_register /\ UNCHANGED window_frame
  \/ register_body /\ UNCHANGED window_frame
  \/ changed_done /\ UNCHANGED window_frame
  \/ record_call /\ UNCHANGED window_frame
  \/ start_recording_body /\ UNCHANGED window_frame
  \/ cb_call(1) /\ UNCHANGED players_frame
  \/ cb_body /\ UNCHANGED players_frame

InitAppRunning == InitRunning /\ InitOthers

SpecThreads == InitAppRunning /\ [][NextThreads]_vars

(***************************************************************************)
(* The window in use and then closed: sounds are played, paused and        *)
(* stopped from its buttons while the stream (opened with one of the block *)
(* sizes, and running since setup_audio) mixes and the status timer fires; *)
(* closeEvent then runs to the end of the process.  The listener was       *)
(* started when the window was constructed.                                *)
(***************************************************************************)
InitShown ==
  /\ mic_muted = FALSE
  /\ mics_muted = FALSE
  /\ mute_mic_while_playing = TRUE
  /\ status = "idle"
  /\ closing = "open"
  /\ listener = "running"
  /\ capture = "running"
  /\ join_expired = FALSE
  /\ log = {}

InitAppShown ==
  /\ Init /\ InitEngine /\ InitThreads /\ InitWindow /\ InitStarted /\ InitStore
  /\ InitShown /\ InitKeyboard /\ InitButtons /\ InitMixer

\* What a step of the window's use of the player leaves as it is.
controller_frame ==
  << detector_vars, thread_vars, window_vars, blocks, store_vars, keyboard_vars,
     buttons_vars, mixer_vars >>

\* The stream's thread runs the mix callback while the process exists.
stream_runs ==
  /\ closing # "exited"
  /\ stream_callback
  /\ UNCHANGED << blocksize, controller_vars, controller_frame >>

\* The status timer's handler, from its first step to its last.
timer_fires ==
  \/ update_status_read /\ UNCHANGED << engine_vars, blocksize, controller_frame >>
  \/ update_status_act /\ UNCHANGED << engine_vars, blocksize, controller_frame >>

NextShown ==
  \/ \E file_path \in { P_mono, P_bad } :
       window_play_sound(file_path, 1, TRUE) /\ UNCHANGED << blocksize, controller_frame >>
  \/ \E sound_id \in SoundIds :
       window_stop_sound(sound_id) /\ UNCHANGED << blocksize, controller_frame >>
  \/ \E sound_id \in SoundIds :
       window_toggle_pause(sound_id) /\ UNCHANGED << blocksize, controller_frame >>
  \/ stop_all_sounds /\ UNCHANGED << blocksize, controller_frame >>
  \/ \E checked \in BOOLEAN :
       on_mute_mic_changed(checked) /\ UNCHANGED << engine_vars, blocksize, controller_frame >>
  \/ timer_fires
  \/ stream_runs
  \/ close_stop_all /\ UNCHANGED << blocksize, controller_frame >>
  \/ close_stop_stream /\ UNCHANGED << engine_vars, controller_frame >>
  \/ close_hotkeys /\ UNCHANGED << engine_vars, blocksize, controller_frame >>
  \/ capture_ends /\ UNCHANGED << engine_vars, blocksize, controller_frame >>
  \/ close_restore_mic /\ UNCHANGED << engine_vars, blocksize, controller_frame >>
  \/ close_exit /\ UNCHANGED << engine_vars, blocksize, controller_frame >>

SpecShown == InitAppShown /\ [][NextShown]_vars

\* The same, with the status timer firing again and again while the window
\* is open (QTimer, every 500 ms) and the stream invoking the mix callback
\* again and again while it is started.
SpecTimer ==
  /\ InitAppShown /\ [][NextShown]_vars
  /\ WF_vars(timer_fires)
  /\ WF_vars(stream_runs)

(***************************************************************************)
(* Observations used by the properties.                                    *)
(***************************************************************************)
\* How many hotkey_triggered signals carrying hotkey are in out.
TriggerCount(out, hotkey) ==
  Cardinality({ i \in 1..Len(out) : out[i] = Signal("hotkey_triggered", hotkey) })

\* The chords carried by the hotkey_triggered signals in out.
TriggerSet(out) ==
  { out[i].arg : i \in { j \in 1..Len(out) : out[j].signal = "hotkey_triggered" } }

Tok_ctrl == << "c", "t", "r", "l" >>
Tok_a == << "a" >>
Tok_1 == << "1" >>
Tok_shift == << "s", "h", "i", "f", "t" >>

\* Both tokens of the chord {ctrl, a} are in the pressed-set.
C1_ChordComplete == { Tok_ctrl, Tok_a } \subseteq current_keys

(***************************************************************************)
(* C1.  With the chord {ctrl, a} registered and no recording session, a    *)
(* key press emits exactly one trigger for the chord when it completes the *)
(* chord (both tokens pressed after the press, not both before) and none   *)
(* otherwise -- in particular none while both stay held, and one again     *)
(* when a is pressed after having been released; a release emits none.     *)
(***************************************************************************)
C1_EdgeTriggered ==
  [][ /\ last'.op = "on_press" =>
           /\ current_keys' = current_keys \cup { NormKey[last'.key] }
           /\ TriggerCount(emitted', CtrlA) =
                IF C1_ChordComplete' /\ ~C1_ChordComplete THEN 1 ELSE 0
      /\ last'.op = "on_release" =>
           /\ current_keys' = current_keys \ { NormKey[last'.key] }
           /\ TriggerCount(emitted', CtrlA) = 0
    ]_vars

\* A press delivered while ctrl and a were already held: the chord stays
\* latched and nothing is emitted.
C1_Witness ==
  /\ last.op = "on_press"
  /\ C1_ChordComplete
  /\ CtrlA \in triggered_hotkeys
  /\ emitted = << >>

(***************************************************************************)
(* C2.  As claimed: in every reachable state every latched chord has all   *)
(* of its tokens in the pressed-set.                                       *)
(***************************************************************************)
C2_LatchedHeld ==
  \A hotkey \in triggered_hotkeys : hotkey_parts(hotkey) \subseteq current_keys

\* C2, amended: every operation other than start_recording preserves the
\* property; start_recording empties the pressed-set and leaves the latched
\* set as it was.
C2_LatchedHeldPreserved ==
  [][ /\ last'.op # "start_recording" => (C2_LatchedHeld => C2_LatchedHeld')
      /\ last'.op = "start_recording" =>
           current_keys' = {} /\ triggered_hotkeys' = triggered_hotkeys
    ]_vars

\* A release that re-armed one chord and left another latched, its keys
\* still pressed.
C2_Witness ==
  /\ last.op = "on_release"
  /\ triggered_hotkeys # {}
  /\ triggered_hotkeys # hotkeys
  /\ hotkeys \subseteq { NormHotkey[S_a], NormHotkey[S_1] }
  /\ Cardinality(hotkeys) = 2
  /\ C2_LatchedHeld

(***************************************************************************)
(* C3.  As claimed: clear_all leaves the registered set and the latched    *)
(* set empty and the pressed-set as it was.                                *)
(***************************************************************************)
C3_ClearAllEmptiesLatched ==
  [][ last'.op = "clear_all" =>
        /\ hotkeys' = {}
        /\ triggered_hotkeys' = {}
        /\ current_keys' = current_keys
    ]_vars

\* C3, amended: clear_all leaves the registered set empty and leaves the
\* latched set and the pressed-set exactly as they were.
C3_ClearAllFrame ==
  [][ last'.op = "clear_all" =>
        /\ hotkeys' = {}
        /\ triggered_hotkeys' = triggered_hotkeys
        /\ current_keys' = current_keys
    ]_vars

\* clear_all called while a chord is latched and its keys are held.
C3_Witness ==
  /\ last.op = "clear_all"
  /\ hotkeys = {}
  /\ triggered_hotkeys # {}
  /\ current_keys # {}

\* The chords a press is to fire: registered, not latched, all tokens pressed
\* once the token of the key delivered is added.
C4_Fired ==
  { hotkey \in hotkeys :
      /\ hotkey \notin triggered_hotkeys
      /\ hotkey_parts(hotkey) \subseteq current_keys \cup { NormKey[last'.key] } }

(***************************************************************************)
(* C4.  On a key press with no recording session, the triggers emitted are *)
(* exactly the registered chords that were not latched and whose tokens    *)
(* are all in the pressed-set after the pressed token is added, each       *)
(* emitted once; exactly those chords are added to the latched set.        *)
(***************************************************************************)
C4_PressMatches ==
  [][ (last'.op = "on_press" /\ ~recording) =>
        /\ current_keys' = current_keys \cup { NormKey[last'.key] }
        /\ TriggerSet(emitted') = C4_Fired
        /\ Len(emitted') = Cardinality(C4_Fired)
        /\ triggered_hotkeys' = triggered_hotkeys \cup C4_Fired
    ]_vars

\* One press fired two chords while a key of neither chord was also held.
C4_Witness ==
  /\ last.op = "on_press"
  /\ Cardinality(TriggerSet(emitted)) = 2
  /\ \E token \in current_keys :
       \A hotkey \in TriggerSet(emitted) : token \notin hotkey_parts(hotkey)

(***************************************************************************)
(* C5.  As claimed: for every key of the capture alphabet, once the chord  *)
(* string written with the key's own name or character is registered, a    *)
(* press of that key (no recording, chord not latched) emits a trigger for *)
(* that chord; and the chord registered as 'a+ctrl' fires on the press     *)
(* that completes {ctrl, a}.                                               *)
(***************************************************************************)
C5_SameNormalization ==
  [][ (last'.op = "on_press" /\ ~recording) =>
        /\ LET chord == NormHotkey[OwnName(last'.key)]
           IN (chord \in hotkeys /\ chord \notin triggered_hotkeys) =>
                 TriggerCount(emitted', chord) = 1
        /\ LET chord == NormHotkey[S_a_ctrl]
           IN ( /\ chord \in hotkeys
                /\ chord \notin triggered_hotkeys
                /\ { Tok_ctrl, Tok_a } \subseteq current_keys' ) =>
                 TriggerCount(emitted', chord) = 1
    ]_vars

\* A key event carrying a shifted symbol yields the token of its base key.
C6_ShiftMapNormalized ==
  \A symbol \in DOMAIN shift_map :
    /\ _normalize_key(KeyCodeChar(symbol)) = << shift_map[symbol] >>
    /\ _normalize_key(KeyCodeChar(symbol)) = _normalize_key(KeyCodeChar(shift_map[symbol]))

(***************************************************************************)
(* C6.  With "1" registered (not latched, no recording), a press of the    *)
(* key whose character is '!' puts the token 1 in the pressed-set and      *)
(* emits one trigger for the chord "1", whatever else is held; and every   *)
(* shifted symbol of the shift map is normalized to the token of its base  *)
(* key.                                                                    *)
(***************************************************************************)
C6_ShiftSymbol ==
  [][ /\ ( /\ last'.op = "on_press"
           /\ last'.key = K_bang
           /\ ~recording
           /\ S_1 \in hotkeys
           /\ S_1 \notin triggered_hotkeys ) =>
             /\ Tok_1 \in current_keys'
             /\ TriggerCount(emitted', S_1) = 1
      /\ C6_ShiftMapNormalized
    ]_vars

\* '!' pressed while shift is held fired the chord "1".
C6_Witness ==
  /\ last.op = "on_press"
  /\ last.key = K_bang
  /\ Tok_shift \in current_keys
  /\ emitted = << Signal("hotkey_triggered", S_1) >>

\* The tokens of a chord string as written, lowercased.
C7_Tokens(x) == LET parts == Split(x, "+") IN [ i \in 1..Len(parts) |-> Lower(parts[i]) ]

\* x and y have the same tokens up to casing and order.
C7_Variant(x, y) ==
  LET a == C7_Tokens(x)
      b == C7_Tokens(y)
  IN /\ Len(a) = Len(b)
     /\ \A t \in ToSet(a) \cup ToSet(b) :
          Cardinality({ i \in 1..Len(a) : a[i] = t }) =
          Cardinality({ i \in 1..Len(b) : b[i] = t })

\* The non-empty chord strings that are variants of y.
C7_Variants == [ y \in ChordStrings |-> { x \in ChordStrings : x # << >> /\ C7_Variant(x, y) } ]

(***************************************************************************)
(* C7.  unregister(X') leaves absent from the registered set every chord   *)
(* X that differs from X' only in letter casing or token order, so         *)
(* register(X) followed by unregister(X') leaves X unregistered; and a     *)
(* press emits triggers only for chords that are registered.               *)
(***************************************************************************)
C7_RoundTrip ==
  [][ /\ last'.op = "unregister" =>
           \A x \in C7_Variants[last'.hotkey] : NormHotkey[x] \notin hotkeys'
      /\ last'.op = "on_press" => TriggerSet(emitted') \subseteq hotkeys
    ]_vars

\* 'A+Ctrl' unregistered after the chord had been registered and had fired
\* (it is still latched): it is no longer registered.
C7_Witness ==
  /\ last.op = "unregister"
  /\ last.hotkey = S_A_Ctrl
  /\ CtrlA \in triggered_hotkeys
  /\ CtrlA \notin hotkeys

(***************************************************************************)
(* C8.  While a recording session is active, a key press adds the token to *)
(* the pressed-set, appends it to the recorded sequence only if it is not  *)
(* in the sequence yet, emits no signal and leaves the latched set as it   *)
(* was, whatever chords are registered.                                    *)
(***************************************************************************)
C8_RecordingPress ==
  [][ (last'.op = "on_press" /\ recording) =>
        LET token == NormKey[last'.key]
        IN /\ current_keys' = current_keys \cup { token }
           /\ recorded_keys' =
                IF \E i \in 1..Len(recorded_keys) : recorded_keys[i] = token
                THEN recorded_keys
                ELSE recorded_keys \o << token >>
           /\ emitted' = << >>
           /\ triggered_hotkeys' = triggered_hotkeys
           /\ recording'
    ]_vars

\* A press during recording completed a registered, unlatched chord and was
\* only recorded.
C8_Witness ==
  /\ last.op = "on_press"
  /\ recording
  /\ Len(recorded_keys) >= 2
  /\ \E hotkey \in hotkeys \ triggered_hotkeys :
       /\ hotkey_parts(hotkey) \subseteq current_keys
       /\ NormKey[last.key] \in hotkey_parts(hotkey)
  /\ emitted = << >>

(***************************************************************************)
(* C9.  While a recording session is active, a release that leaves the     *)
(* pressed-set empty emits exactly one recording_finished signal carrying  *)
(* the recorded tokens joined by '+' in recorded (first-press) order and   *)
(* leaves the session inactive with an empty sequence; a release that      *)
(* leaves a key pressed emits nothing and keeps the session and sequence.  *)
(***************************************************************************)
C9_RecordingRelease ==
  [][ (last'.op = "on_release" /\ recording) =>
        /\ current_keys' = current_keys \ { NormKey[last'.key] }
        /\ IF current_keys' = {}
           THEN /\ emitted' = << Signal("recording_finished", Join("+", recorded_keys)) >>
                /\ ~recording'
                /\ recorded_keys' = << >>
           ELSE /\ emitted' = << >>
                /\ recording'
                /\ recorded_keys' = recorded_keys
    ]_vars

\* The session ended with the chord in press order, ctrl before a, which is
\* not the sorted order of a registered chord.
C9_Witness ==
  /\ last.op = "on_release"
  /\ ~recording
  /\ recorded_keys = << >>
  /\ emitted = << Signal("recording_finished", S_ctrl_a) >>

(***************************************************************************)
(* C10.  start_recording leaves an active session, an empty recorded       *)
(* sequence and an empty pressed-set, whatever the state before; and       *)
(* during a session the sequence only grows by the token of a key press,   *)
(* so the event of a session holds only tokens pressed since it started.   *)
(***************************************************************************)
C10_StartRecording ==
  [][ /\ last'.op = "start_recording" =>
           /\ recording'
           /\ recorded_keys' = << >>
           /\ current_keys' = {}
      /\ (last'.op # "start_recording" /\ recording') =>
           ToSet(recorded_keys') \subseteq
             ToSet(recorded_keys) \cup
               (IF last'.op = "on_press" THEN { NormKey[last'.key] } ELSE {})
      /\ ~recording' => recorded_keys' = << >>
    ]_vars

\* start_recording called while a fired chord's key was still held.
C10_Witness ==
  /\ last.op = "start_recording"
  /\ recording
  /\ recorded_keys = << >>
  /\ current_keys = {}
  /\ triggered_hotkeys # {}

(***************************************************************************)
(* C11: the registered set never contains an empty chord: whatever strings *)
(* register was called with (the empty string, whitespace, '+' only),      *)
(* every registered chord has at least one non-empty token.                *)
(***************************************************************************)
C11_NoEmptyChord ==
  \A hotkey \in hotkeys : \E token \in hotkey_parts(hotkey) : token # << >>

(***************************************************************************)
(* The positions at which a thread's next step reads or writes the         *)
(* detector's current_keys, triggered_hotkeys, hotkeys, recording or       *)
(* recorded_keys.                                                          *)
(***************************************************************************)
DetectorAccessPcs ==
  { "press_add", "press_match", "release_remove", "release_rest", "register_body",
    "unregister_body", "start_recording_body", "triggered_status" }

(***************************************************************************)
(* C12: every read or write of the detector's pressed set, latched set,    *)
(* registered set and recording session, from the capture thread or from   *)
(* the main thread, is made by a thread that holds the detector's lock.    *)
(***************************************************************************)
C12_AccessUnderLock ==
  \A t \in Threads : pc[t] \in DetectorAccessPcs => lock.detector = t

(***************************************************************************)
(* The locks are never nested: a thread that holds the detector's lock     *)
(* neither holds nor waits for the player's lock and is not inside         *)
(* play_sound, and a thread that holds the player's lock neither holds nor *)
(* waits for the detector's.                                               *)
(***************************************************************************)
LocksNeverNested ==
  \A t \in Threads :
    /\ lock.detector = t =>
         /\ lock.engine # t
         /\ pc[t] \notin DOMAIN EngineEntry
         /\ pc[t] \notin PlayPcs
    /\ lock.engine = t =>
         /\ lock.detector # t
         /\ pc[t] \notin DOMAIN DetectorEntry

(***************************************************************************)
(* C13 as stated: the locks are never nested, and the handling of a        *)
(* trigger or recording-finished notification runs only after the capture  *)
(* thread has left the block of the detector's lock it emitted the         *)
(* notification in.                                                        *)
(***************************************************************************)
C13_HandledAfterRelease ==
  /\ LocksNeverNested
  /\ handling.released

(***************************************************************************)
(* C13, amended: no thread ever holds, or waits for, the player's lock     *)
(* while it holds the detector's lock, nor the other way round, so the two *)
(* locks cannot deadlock; a notification is handled on the main thread,    *)
(* which holds no detector lock while it plays the sound, though the       *)
(* capture thread may still be inside the block it emitted it in.          *)
(***************************************************************************)
C13_LocksNeverNested ==
  /\ LocksNeverNested
  /\ handling # NoEvent => pc["main"] # "idle"
  /\ \A t \in Threads \ { "main" } : pc[t] \notin PlayPcs

\* The main thread holds the player's lock, playing the sound of a trigger,
\* while the capture thread still holds the detector's lock in the block
\* that emitted the trigger.
C13_Witness ==
  /\ lock.engine = "main"
  /\ lock.detector = "capture"
  /\ handling.signal = "hotkey_triggered"
  /\ ~handling.released

(***************************************************************************)
(* The positions of a thread inside the 'with self.lock' block of          *)
(* play_sound, from the clearing of the table to the end of the block.     *)
(***************************************************************************)
PlayBlockPcs ==
  { "play_clear", "play_counter_load", "play_counter_store", "play_id",
    "play_insert", "play_flag", "play_release" }

(***************************************************************************)
(* C14: play_sound with overlap=False clears the table and inserts the new *)
(* sound in one step as far as the mix callback can tell: the callback     *)
(* never reads the table while a thread is inside play_sound's block (so   *)
(* it sees the table before the block or the table with the new sound in   *)
(* it, never the emptied one), and at the end of the block the table holds *)
(* exactly the new sound, whose identifier is the latest issued, so that   *)
(* every earlier identifier is not found.                                  *)
(***************************************************************************)
C14_ReplaceIsAtomic ==
  /\ pc["audio"] = "cb_body" => \A t \in Players : pc[t] \notin PlayBlockPcs
  /\ \A t \in Players :
       (pc[t] = "play_release" /\ ~local[t].overlap) =>
          /\ DOMAIN active_sounds = { local[t].sound_id }
          /\ active_sounds[local[t].sound_id] =
               SoundData(local[t].samples, local[t].volume, local[t].file_path)
          /\ \A id \in 1..sound_id_counter :
               id # local[t].sound_id => id \notin DOMAIN active_sounds

\* A thread has just emptied a table that held a sound (is_playing is still
\* set) and has not inserted the new one, while the mix callback waits for
\* the lock.
C14_Witness ==
  /\ \E t \in Players : pc[t] = "play_counter_load" /\ ~local[t].overlap
  /\ active_sounds = NoSounds
  /\ is_playing
  /\ pc["audio"] = "cb_acquire"

OneSoundOps == { "set_sound_volume", "toggle_pause_sound", "stop_sound" }

(***************************************************************************)
(* C16: for an identifier that is not in active_sounds (never issued,      *)
(* finished or stopped), set_sound_volume, toggle_pause_sound and          *)
(* stop_sound leave active_sounds as it was (membership, positions,        *)
(* volumes, paused flags), and toggle_pause_sound returns False.           *)
(***************************************************************************)
C16_UnknownIdNoEffect ==
  [][ (call'.op \in OneSoundOps /\ call'.sound_id \notin DOMAIN active_sounds) =>
        /\ active_sounds' = active_sounds
        /\ call'.op = "toggle_pause_sound" => call'.returned = << FALSE >>
    ]_vars

\* toggle_pause_sound has just been called with an identifier that was
\* issued and is no longer active, while another sound is active.
C16_Witness ==
  /\ call.op = "toggle_pause_sound"
  /\ call.sound_id <= sound_id_counter
  /\ call.sound_id \notin DOMAIN active_sounds
  /\ DOMAIN active_sounds # {}
  /\ call.returned = << FALSE >>

(***************************************************************************)
(* C17: for an active sound, toggle_pause_sound negates its paused flag    *)
(* and returns the new value of the flag; the sound's position and volume  *)
(* and every other sound are unchanged.                                    *)
(***************************************************************************)
C17_ToggleLive ==
  [][ (call'.op = "toggle_pause_sound" /\ call'.sound_id \in DOMAIN active_sounds) =>
        /\ active_sounds' =
             [ active_sounds EXCEPT ![call'.sound_id].paused = ~active_sounds[call'.sound_id].paused ]
        /\ call'.returned = << active_sounds'[call'.sound_id].paused >>
    ]_vars

\* A sound part-way through its buffer has just been paused next to
\* another active sound.
C17_Witness ==
  /\ call.op = "toggle_pause_sound"
  /\ call.sound_id \in DOMAIN active_sounds
  /\ call.returned = << TRUE >>
  /\ active_sounds[call.sound_id].position > 0
  /\ Cardinality(DOMAIN active_sounds) > 1

(***************************************************************************)
(* The block a mix of the given sounds is expected to give: at frame f and *)
(* channel c, the sum over the sounds that still have data at that frame   *)
(* of volume x master x the sample at position + f.                        *)
(***************************************************************************)
RECURSIVE ExpectedSample(_, _, _, _, _)
ExpectedSample(ids, sounds, f, c, master) ==
  IF ids = {} THEN 0
  ELSE LET id == CHOOSE x \in ids : TRUE
           sd == sounds[id]
       IN (IF sd.position + f <= Len(sd.samples)
           THEN sd.volume * master * sd.samples[sd.position + f][c]
           ELSE 0)
          + ExpectedSample(ids \ { id }, sounds, f, c, master)

ExpectedBlock(sounds, frames, master) ==
  [ f \in 1..frames |->
      [ c \in 1..CHANNELS |-> ExpectedSample(DOMAIN sounds, sounds, f, c, master) ] ]

PausedIds(sounds) == { id \in DOMAIN sounds : sounds[id].paused }

(***************************************************************************)
(* C18: while a sound's paused flag is set, a mix callback neither changes *)
(* its entry nor removes it, and the block written is the mix of the other *)
(* sounds alone; and no step at all moves the position of a sound that is  *)
(* paused before the step, the step that resumes it included, so that the  *)
(* first callback after the resume reads from the position the sound had   *)
(* when it was paused.                                                     *)
(***************************************************************************)
C18_PausedFrozen ==
  [][ \A id \in PausedIds(active_sounds) :
        /\ call'.op = "_audio_callback" =>
             /\ id \in DOMAIN active_sounds'
             /\ active_sounds'[id] = active_sounds[id]
             /\ outdata' = ExpectedBlock(Without(active_sounds, PausedIds(active_sounds)),
                                         Len(outdata'), master_volume)
        /\ id \in DOMAIN active_sounds' =>
             active_sounds'[id].position = active_sounds[id].position
    ]_vars

\* A mix callback has just run with a sound paused part-way through its
\* buffer, and wrote the samples of another sound.
C18_Witness ==
  /\ call.op = "_audio_callback"
  /\ \E id \in PausedIds(active_sounds) :
       /\ active_sounds[id].position > 0
       /\ active_sounds[id].position < Len(active_sounds[id].samples)
  /\ \E f \in 1..Len(outdata) : outdata[f] # << 0, 0 >>

(***************************************************************************)
(* C19: in every reachable state, every sound in active_sounds has         *)
(* 0 <= position <= length of its samples.                                 *)
(***************************************************************************)
C19_PositionInRange ==
  \A id \in DOMAIN active_sounds :
    /\ 0 <= active_sounds[id].position
    /\ active_sounds[id].position <= Len(active_sounds[id].samples)

\* A mix callback has left a sound inside its buffer, past the start.
C19_Witness ==
  /\ call.op = "_audio_callback"
  /\ \E id \in DOMAIN active_sounds :
       /\ ~active_sounds[id].paused
       /\ active_sounds[id].position > 0
       /\ active_sounds[id].position < Len(active_sounds[id].samples)

(***************************************************************************)
(* C20: every frame of the block a mix callback writes is the sum, over    *)
(* the sounds that are active, not paused and still have data at that      *)
(* frame, of volume x master volume x the sample at the sound's position,  *)
(* with no clamping; a frame past the end of every sound is silent.        *)
(***************************************************************************)
C20_MixIsSum ==
  [][ call'.op = "_audio_callback" =>
        outdata' = ExpectedBlock(Without(active_sounds, PausedIds(active_sounds)),
                                 Len(outdata'), master_volume)
    ]_vars

\* A block of two frames: in the first, a sound at volume 1 (frame << 1, 2 >>)
\* and one at volume 2 (frame << 7, 7 >>) add up under master volume 1; in
\* the second only the longer sound has data.
C20_Witness ==
  /\ call.op = "_audio_callback"
  /\ master_volume = 1
  /\ outdata = << << 15, 16 >>, << -3, 4 >> >>

(***************************************************************************)
(* C21: the master volume is within 0.0 to 2.0 in every state;             *)
(* set_master_volume(v) stores 0.0 for v below 0, 2.0 for v above 2 and v  *)
(* otherwise; and no other operation changes the master volume.            *)
(***************************************************************************)
C21_MasterVolumeClamped ==
  [][ /\ master_volume \in 0..2
      /\ master_volume' \in 0..2
      /\ call'.op = "set_master_volume"
           => master_volume' = IF call'.volume < 0 THEN 0
                               ELSE IF call'.volume > 2 THEN 2
                               ELSE call'.volume
      /\ call'.op # "set_master_volume" => master_volume' = master_volume ]_vars

\* set_master_volume was given a volume below the range and 0 is stored.
C21_Witness ==
  /\ call.op = "set_master_volume"
  /\ call.volume < 0
  /\ master_volume = 0

(***************************************************************************)
(* C22: every sound in active_sounds has a volume within 0.0 to 2.0 in     *)
(* every state, whatever volumes play_sound and set_sound_volume are given. *)
(***************************************************************************)
C22_SoundVolumeInRange ==
  \A sound_id \in DOMAIN active_sounds : active_sounds[sound_id].volume \in 0..2

(***************************************************************************)
(* C23: whenever no thread holds the player's lock, is_playing is true     *)
(* exactly when active_sounds is not empty, after every play_sound,        *)
(* stop_sound, stop_all, toggle_pause_sound, set_sound_volume and mix      *)
(* callback, however the threads' steps interleave.                        *)
(***************************************************************************)
C23_FlagMatchesTable ==
  lock.engine = "free" => (is_playing <=> DOMAIN active_sounds # {})

\* The mix callback has drained the table and reset the flag, and has left
\* its block.
C23_Witness ==
  /\ lock.engine = "free"
  /\ call.op = "_audio_callback"
  /\ sound_id_counter > 0
  /\ active_sounds = NoSounds
  /\ ~is_playing

(***************************************************************************)
(* The identifiers that have left the table: issued (at most the counter)  *)
(* and not in active_sounds.                                               *)
(***************************************************************************)
LeftIds == { id \in 1..sound_id_counter : id \notin DOMAIN active_sounds }

(***************************************************************************)
(* C24: an identifier that has left active_sounds (its sound reached its   *)
(* end, stop_sound, stop_all, or a play_sound with overlap=False) is never *)
(* in the table again, and set_sound_volume, toggle_pause_sound and        *)
(* stop_sound on it change nothing of the player's state.                  *)
(***************************************************************************)
C24_LeftIsTerminal ==
  [][ /\ LeftIds \subseteq LeftIds'
      /\ (call'.op \in OneSoundOps /\ call'.sound_id \in LeftIds) =>
            << active_sounds', sound_id_counter', master_volume', is_playing',
               _audio_cache' >>
            = << active_sounds, sound_id_counter, master_volume, is_playing,
                 _audio_cache >>
    ]_vars

\* stop_sound has just been called on an identifier that left the table
\* before, while a later sound is playing.
C24_Witness ==
  /\ call.op = "stop_sound"
  /\ call.sound_id \in LeftIds
  /\ call.sound_id < sound_id_counter
  /\ sound_id_counter \in DOMAIN active_sounds
  /\ is_playing

(***************************************************************************)
(* ceil(n / b) for n >= 0 and b >= 1.                                      *)
(***************************************************************************)
CeilDiv(n, b) == (n + b - 1) \div b

\* The sound is in the table and paused.
IsPaused(sound_id) ==
  sound_id \in DOMAIN active_sounds /\ active_sounds[sound_id].paused

\* A sound that was never paused (and is never stopped) is in the table
\* while fewer than ceil(N / B) mix callbacks have run since it was played,
\* and has left it after exactly that many.
DrainedOnTime ==
  \A sound_id \in DOMAIN blocks :
    ~blocks[sound_id].paused =>
      IF sound_id \in DOMAIN active_sounds
      THEN blocks[sound_id].count < CeilDiv(blocks[sound_id].length, blocksize)
      ELSE blocks[sound_id].count = CeilDiv(blocks[sound_id].length, blocksize)

(***************************************************************************)
(* C25: a sound over a buffer of N >= 1 frames that is never paused and    *)
(* never stopped has left active_sounds after exactly ceil(N / B) mix      *)
(* callbacks of block size B and not before; and, the stream invoking the  *)
(* callback again and again, every sound whose pauses come to an end       *)
(* (it is not paused forever) eventually leaves the table.                 *)
(***************************************************************************)
C25_DrainsInTime ==
  /\ []DrainedOnTime
  /\ \A sound_id \in SoundIds :
       <>[](~IsPaused(sound_id))
         => []<>(sound_id \notin DOMAIN active_sounds)

\* The sound of three frames, never paused, has left the table after two
\* blocks of two frames.
C25_Witness ==
  \E sound_id \in DOMAIN blocks :
    /\ sound_id \notin DOMAIN active_sounds
    /\ ~blocks[sound_id].paused
    /\ blocks[sound_id].length = 3
    /\ blocksize = 2
    /\ blocks[sound_id].count = 2

(***************************************************************************)
(* C26: a load of a path that is in the cache calls no decode (the count   *)
(* of decodes is unchanged); clear_cache empties the cache, and the next   *)
(* load of a path that was loaded before it decodes again (the count goes  *)
(* up by one) and puts the path back in the cache; and between two clears  *)
(* each path is decoded at most once by successful loads.                  *)
(***************************************************************************)
C26_DecodedOncePerClear ==
  [][ /\ \A p \in AllPaths : decodes.fresh[p] <= 1 /\ decodes'.fresh[p] <= 1
      /\ (call'.op = "load_audio" /\ held'.path \in DOMAIN _audio_cache)
           => decodes' = decodes
      /\ call'.op = "clear_cache" => DOMAIN _audio_cache' = {}
      /\ ( /\ call'.op = "load_audio"
           /\ held'.path \notin DOMAIN _audio_cache
           /\ Decoded[held'.path].ok )
           => /\ decodes'.total = decodes.total + 1
              /\ decodes'.of[held'.path] = decodes.of[held'.path] + 1
              /\ held'.path \in DOMAIN _audio_cache'
              /\ _audio_cache'[held'.path] = Decoded[held'.path].samples
    ]_vars

\* A path loaded, the cache cleared, and the path loaded again: it has been
\* decoded twice, once since the clear, and is in the cache.
C26_Witness ==
  /\ call.op = "load_audio"
  /\ held.path = P_long
  /\ decodes.of[P_long] = 2
  /\ decodes.fresh[P_long] = 1
  /\ P_long \in DOMAIN _audio_cache

(***************************************************************************)
(* C27: when sf.read or the resampling of a file fails, load_audio returns *)
(* None to its caller and leaves the cache exactly as it was, with no      *)
(* entry for the path, so that every later load of the path attempts the   *)
(* decode again.                                                           *)
(***************************************************************************)
C27_FailedLoadCachesNothing ==
  [][ (call'.op = "load_audio" /\ ~Decoded[held'.path].ok) =>
        /\ ~held'.ok
        /\ held'.samples = << >>
        /\ _audio_cache' = _audio_cache
        /\ held'.path \notin DOMAIN _audio_cache'
        /\ decodes'.of[held'.path] = decodes.of[held'.path] + 1
    ]_vars

\* The file whose resampling is refused has been loaded twice, next to a
\* cached file: it was decoded both times, and None was returned.
C27_Witness ==
  /\ call.op = "load_audio"
  /\ held.path = P_slow
  /\ ~held.ok
  /\ decodes.of[P_slow] = 2
  /\ DOMAIN _audio_cache = { P_long }

(***************************************************************************)
(* C28: play_sound given a file whose load fails returns no identifier and *)
(* leaves the table (also with overlap=False, positions and paused flags   *)
(* included), the identifier counter, is_playing and the master volume as  *)
(* they were.                                                              *)
(***************************************************************************)
C28_FailedPlayNoEffect ==
  [][ (\E volume \in PlayVolumes, overlap \in BOOLEAN :
          play_sound(P_bad, volume, overlap)) =>
        /\ call'.returned = << >>
        /\ << active_sounds', sound_id_counter', is_playing', master_volume' >>
           = << active_sounds, sound_id_counter, is_playing, master_volume >>
        /\ P_bad \notin DOMAIN _audio_cache'
    ]_vars

\* play_sound has just returned None while a sound is part-way through its
\* buffer.
C28_Witness ==
  /\ call = Call("play_sound", 0, << >>)
  /\ is_playing
  /\ \E sound_id \in DOMAIN active_sounds : active_sounds[sound_id].position > 0

(***************************************************************************)
(* C29: the array load_audio returns and the array a sound holds are       *)
(* independent of the cached array: a caller writing into the array it     *)
(* received changes no cache entry, so every later load of the path still  *)
(* returns the decoded contents; and clear_cache changes no sound's        *)
(* buffer, length or position, every sound keeping the decoded contents of *)
(* its file until it has played to its end.                                *)
(***************************************************************************)
C29_BuffersIndependent ==
  [][ /\ call'.op = "mutate" => _audio_cache' = _audio_cache
      /\ \A p \in DOMAIN _audio_cache' : _audio_cache'[p] = Decoded[p].samples
      /\ (call'.op = "load_audio" /\ held'.ok)
           => held'.samples = Decoded[held'.path].samples
      /\ call'.op \in { "clear_cache", "mutate", "load_audio" }
           => active_sounds' = active_sounds
      /\ \A sound_id \in DOMAIN active_sounds' :
           LET sound_data == active_sounds'[sound_id]
           IN /\ sound_data.samples = Decoded[sound_data.file_path].samples
              /\ sound_data.position < Len(Decoded[sound_data.file_path].samples)
    ]_vars

\* The cache has just been cleared while a sound is part-way through its
\* buffer and a caller holds an array it has written into.
C29_Witness ==
  /\ call.op = "clear_cache"
  /\ held.ok
  /\ held.samples = Silenced(Decoded[held.path].samples)
  /\ \E sound_id \in DOMAIN active_sounds : active_sounds[sound_id].position > 0

(***************************************************************************)
(* C30: every array a successful load_audio returns has exactly CHANNELS   *)
(* (2) channels, whatever the channel count of the file (one channel is    *)
(* duplicated, more than two are reduced to two), so that no sound in      *)
(* active_sounds has a buffer whose channel count differs from the output  *)
(* block's.                                                                *)
(***************************************************************************)
C30_BuffersAreStereo ==
  /\ held.ok => \A i \in 1..Len(held.samples) : Len(held.samples[i]) = CHANNELS
  /\ \A p \in DOMAIN _audio_cache :
       \A i \in 1..Len(_audio_cache[p]) : Len(_audio_cache[p][i]) = CHANNELS
  /\ \A sound_id \in DOMAIN active_sounds :
       \A i \in 1..Len(active_sounds[sound_id].samples) :
         Len(active_sounds[sound_id].samples[i]) = CHANNELS

(***************************************************************************)
(* C31: closeEvent stops the stream before it clears active_sounds, so     *)
(* that once the shutdown has cleared the table no mix callback runs: in   *)
(* every state from closeEvent's stop_all on, the player's last operation  *)
(* is not a mix callback.                                                  *)
(***************************************************************************)
C31_NoCallbackAfterTeardown ==
  closing # "open" => call.op # "_audio_callback"

(***************************************************************************)
(* C32: when HotkeyManager.stop's join returns while the listener's thread *)
(* is still running, a cleanup error is logged; the join is made once and  *)
(* the steps of closeEvent that follow it still run.                       *)
(***************************************************************************)
C32_JoinTimeoutLogged ==
  join_expired => "Cleanup error" \in log

(***************************************************************************)
(* C33: a mix callback of F frames advances the position of every sound    *)
(* that is not paused by exactly min(F, length - position) (a sound it     *)
(* removes had reached its end by that advance), and leaves in             *)
(* active_sounds no sound, paused or not, whose position is at the end of  *)
(* its buffer, a buffer of no frames included.                             *)
(***************************************************************************)
C33_CursorAdvance ==
  [][ \A frames \in BlockSizes :
        _audio_callback(frames) =>
          /\ \A sound_id \in DOMAIN active_sounds :
               LET sound_data == active_sounds[sound_id]
                   reached == sound_data.position
                                + Min(frames, Len(sound_data.samples) - sound_data.position)
               IN ~sound_data.paused =>
                    IF sound_id \in DOMAIN active_sounds'
                    THEN active_sounds'[sound_id].position = reached
                    ELSE reached = Len(sound_data.samples)
          /\ \A sound_id \in DOMAIN active_sounds' :
               active_sounds'[sound_id].position
                 < Len(active_sounds'[sound_id].samples)
    ]_vars

(***************************************************************************)
(* C34: stop_sound(id) removes the sound id and no other, and stop_all     *)
(* removes every sound, each in one step taken while the caller holds the  *)
(* player's lock; the entries of the other sounds (position, volume,       *)
(* paused) are as they were; a sound that is out of active_sounds stays    *)
(* out, and the block a mix callback writes is the mix of the sounds that  *)
(* are in active_sounds when it runs, so that it reads nothing of a sound  *)
(* removed before.  PendingIds are the identifiers a play_sound under way  *)
(* has taken and not yet inserted; RemovedIds those that have been in      *)
(* active_sounds and are out of it.                                        *)
(***************************************************************************)
PendingIds ==
  UNION { IF pc[t] = "play_id" THEN { sound_id_counter }
          ELSE IF pc[t] = "play_insert" THEN { local[t].sound_id }
          ELSE {} : t \in Players }

RemovedIds == LeftIds \ PendingIds

C34_StopRemovesAtOnce ==
  [][ /\ \A t \in Players :
           pc[t] = "stop_body" /\ pc'[t] # "stop_body" =>
             /\ lock.engine = t
             /\ active_sounds' =
                  [ id \in DOMAIN active_sounds \ { local[t].sound_id } |->
                      active_sounds[id] ]
      /\ \A t \in Players :
           pc[t] = "stop_all_body" /\ pc'[t] # "stop_all_body" =>
             /\ lock.engine = t
             /\ DOMAIN active_sounds' = {}
      /\ RemovedIds \subseteq RemovedIds'
      /\ pc["audio"] = "cb_body" /\ pc'["audio"] # "cb_body" =>
           /\ lock.engine = "audio"
           /\ outdata' = ExpectedBlock(Without(active_sounds, PausedIds(active_sounds)),
                                       Len(outdata'), master_volume)
    ]_vars

\* stop_sound(1) has run and returned, sound 1 is out of the table and sound
\* 2, whose volume was set to 2, is in it, and the mix callback is about to
\* run its block.
C34_Witness ==
  /\ call.op = "stop_sound"
  /\ call.sound_id = 1
  /\ pc["worker"] = "idle"
  /\ DOMAIN active_sounds = { 2 }
  /\ active_sounds[2].volume = 2
  /\ pc["audio"] = "cb_body"

(***************************************************************************)
(* C35: recording_finished is never emitted with an empty string: a        *)
(* session ends only after a press has been recorded in it, also when a    *)
(* key that was held when start_recording cleared current_keys is          *)
(* released during the session.                                            *)
(***************************************************************************)
C35_RecordedChordNotEmpty ==
  \A i \in 1..Len(emitted) :
    emitted[i].signal = "recording_finished" => emitted[i].arg # << >>

(***************************************************************************)
(* C36: after every handler that assigns, re-records or clears a button's  *)
(* hotkey or removes a button, the detector's registered set is the set of *)
(* the normalized hotkeys of the buttons that have one; a chord that some  *)
(* button still has is not unregistered because another button with the    *)
(* same normalized chord was changed or removed.                           *)
(***************************************************************************)
C36_RegisteredMatchesButtons ==
  hotkeys = { NormHotkey[sound_buttons[b]] :
                b \in { x \in DOMAIN sound_buttons : sound_buttons[x] # << >> } }

(***************************************************************************)
(* C37.  As claimed: the latched set is a subset of the registered set in  *)
(* every state, unregister and clear_all leaving no latched entry for a    *)
(* chord that is no longer registered.                                     *)
(***************************************************************************)
C37_LatchedRegistered == triggered_hotkeys \subseteq hotkeys

\* C37, amended: a chord enters the latched set only while it is registered;
\* register, unregister and clear_all leave the latched set exactly as it
\* was, so a chord unregistered while latched stays latched; a press fires
\* no chord that is latched, one registered again during the hold included;
\* and the release of a key takes out of the latched set exactly the chords
\* that have the key as a token, registered or not.
C37_StaleLatchKept ==
  [][ /\ last'.op \in { "register", "unregister", "clear_all" } =>
           triggered_hotkeys' = triggered_hotkeys
      /\ (triggered_hotkeys' \ triggered_hotkeys) \subseteq hotkeys
      /\ last'.op = "on_press" =>
           \A i \in 1..Len(emitted') : emitted'[i].arg \notin triggered_hotkeys
      /\ last'.op = "on_release" =>
           triggered_hotkeys' =
             { hotkey \in triggered_hotkeys :
                 NormKey[last'.key] \notin hotkey_parts(hotkey) }
    ]_vars

\* unregister has just been called for a chord that is latched and whose
\* keys are held: the chord is out of the registered set and still latched.
C37_Witness ==
  /\ last.op = "unregister"
  /\ NormHotkey[last.hotkey] \in triggered_hotkeys
  /\ NormHotkey[last.hotkey] \notin hotkeys
  /\ hotkey_parts(NormHotkey[last.hotkey]) \subseteq current_keys
  /\ Cardinality(down) = 2

(***************************************************************************)
(* C38: within one mix callback every sound is scaled by the same value of *)
(* the master volume, also when set_master_volume runs on another thread   *)
(* meanwhile: the loop of a callback never reads two different values.     *)
(***************************************************************************)
C38_OneMasterPerBlock == Cardinality(mixing.masters) <= 1

(***************************************************************************)
(* C39: every call of load_audio ends with an array or with None, never    *)
(* with an exception it did not catch, also when clear_cache or another    *)
(* load of the same path runs on another thread between load_audio's test  *)
(* of the cache and its read of the entry.                                 *)
(***************************************************************************)
C39_LoadNeverRaises == \A t \in Players : pc[t] # "load_raised"

=============================================================================
